---- MODULE Spec2Model ----
(***************************************************************************)
(* The ledger write path of jef-wallets-backend: create_one_ledger         *)
(* (record_entry) of lambda-ledgers/jef-wallets-ledgers-create-one         *)
(* (code/code.py, the writer with the version condition on the Update),    *)
(* running as concurrent, stateless invocations against one DynamoDB       *)
(* table that holds the ledger items (pk = ledger_id) and the account      *)
(* STATE items (pk = "STATE#<account_number>").                            *)
(*                                                                         *)
(* Each invocation is a call slot c.  Its steps are the places where the   *)
(* code touches the store, so that other invocations interleave exactly    *)
(* there: Invoke (normalise and validate, no store access), GetState       *)
(* (table.get_item, ConsistentRead), Transact (transact_write_items and    *)
(* the whole except-branch that follows it), Return.                       *)
(*                                                                         *)
(* Beside it, on the same table: create_double_entry (record_transfer) of  *)
(* build/lambda_function.py, the SQS consumers of lambda_function.py and   *)
(* build/lambda_function.py, and the readers get_latest_balance,           *)
(* verify_sufficient_funds, build_double_entry_json and                    *)
(* list_ledgers_by_account.  Before the queue stands the HTTP producer of  *)
(* sqs-ledgers; the transactions table has its own SQS consumer,           *)
(* create_transaction.  Each has its own specification below.              *)
(*                                                                         *)
(* Amounts are Decimals in the code; they are modelled as integers, which  *)
(* is exact for the values used here (far below the 28 digits of the       *)
(* default decimal context).  Ledger ids never have the form "STATE#..."   *)
(***************************************************************************)
EXTENDS Integers, Sequences, FiniteSets, TLC

(***************************************************************************)
(* Bounds of the model.                                                    *)
(***************************************************************************)
NumLedgerIds == 3
NumValidationIds == 2
NumContentionIds == 6
NumTransactionIds == 2
NumUuids == 4
MaxBatch == 2
NumQueuedIds == 2
MaxClock == 1
NumClockIds == 3
PageSize == 2

(***************************************************************************)
(* Program constants.                                                      *)
(***************************************************************************)
max_attempts_one_more == 5 + 1
max_attempts_one_less == 5 - 1

\* max_attempts = 5
max_attempts == 5

Calls == {"w1", "w2"}
Accounts == {"1001"}
LedgerId(i) == "e" \o ToString(i)

(***************************************************************************)
(* Untyped payload values, as they arrive in the request dict.             *)
(***************************************************************************)
PyNone == [t |-> "none"]
PyBool(b) == [t |-> "bool", b |-> b]
PyInt(n) == [t |-> "int", n |-> n]
PyStr(s) == [t |-> "str", s |-> s]
Dec(n) == [t |-> "dec", n |-> n]
PyNaN == [t |-> "float", nan |-> TRUE]
DecNaN == [t |-> "dec", nan |-> TRUE]

Digits == <<"0", "1", "2", "3", "4", "5", "6", "7", "8", "9">>
IsDigit(ch) == \E i \in 1..10 : Digits[i] = ch
DigitVal(ch) == (CHOOSE i \in 1..10 : Digits[i] = ch) - 1

RECURSIVE LStrip(_)
LStrip(s) == IF Len(s) > 0 /\ SubSeq(s, 1, 1) = " " THEN LStrip(SubSeq(s, 2, Len(s))) ELSE s
RECURSIVE RStrip(_)
RStrip(s) == IF Len(s) > 0 /\ SubSeq(s, Len(s), Len(s)) = " " THEN RStrip(SubSeq(s, 1, Len(s) - 1)) ELSE s
Strip(s) == RStrip(LStrip(s))

UpperChars == "ABCDEFGHIJKLMNOPQRSTUVWXYZ"
LowerChars == "abcdefghijklmnopqrstuvwxyz"
LowerChar(ch) ==
  IF \E i \in 1..26 : SubSeq(UpperChars, i, i) = ch
  THEN LET i == CHOOSE j \in 1..26 : SubSeq(UpperChars, j, j) = ch IN SubSeq(LowerChars, i, i)
  ELSE ch
RECURSIVE Lower(_)
Lower(s) == IF Len(s) = 0 THEN s ELSE LowerChar(SubSeq(s, 1, 1)) \o Lower(SubSeq(s, 2, Len(s)))

_as_str(v) == IF v.t = "str" THEN Strip(v.s) ELSE ""

RECURSIVE AllDigits(_)
AllDigits(s) == IF Len(s) = 0 THEN TRUE ELSE IsDigit(SubSeq(s, 1, 1)) /\ AllDigits(SubSeq(s, 2, Len(s)))
RECURSIVE DigitsValue(_, _)
DigitsValue(s, acc) ==
  IF Len(s) = 0 THEN acc ELSE DigitsValue(SubSeq(s, 2, Len(s)), 10 * acc + DigitVal(SubSeq(s, 1, 1)))

\* Decimal(s) for the integer literals: an optional sign and digits.
DecimalOfString(s) ==
  LET signed == Len(s) > 0 /\ SubSeq(s, 1, 1) \in {"-", "+"}
      body == IF signed THEN SubSeq(s, 2, Len(s)) ELSE s
  IN  IF Len(body) = 0 \/ ~AllDigits(body) THEN PyNone
      ELSE IF signed /\ SubSeq(s, 1, 1) = "-" THEN Dec(0 - DigitsValue(body, 0))
      ELSE Dec(DigitsValue(body, 0))

to_decimal_bool_as_int(v) ==
  CASE v.t = "none" -> PyNone
    [] v.t = "dec" -> v
    [] v.t \in {"int", "bool"} -> Dec(IF v.t = "bool" THEN 1 ELSE v.n)
    [] v.t = "str" -> IF Len(Strip(v.s)) = 0 THEN PyNone ELSE DecimalOfString(Strip(v.s))
    [] OTHER -> PyNone

_to_decimal(v) ==
  CASE v.t = "none" -> PyNone
    [] v.t = "dec" -> v
    [] v.t = "bool" -> PyNone
    [] v.t = "int" -> Dec(v.n)
    [] v.t = "float" -> DecNaN
    [] v.t = "str" -> IF Len(Strip(v.s)) = 0 THEN PyNone ELSE DecimalOfString(Strip(v.s))
    [] OTHER -> PyNone

state_pk_of_any_account(account_number) == "STATE#"

_state_pk(account_number) == "STATE#" \o account_number

(***************************************************************************)
(* The request payloads the callers send.                                  *)
(***************************************************************************)
Payload(acct, sender, ty, amt, lid) ==
  [account_number |-> acct, sender_account_number |-> sender, type |-> ty,
   amount |-> amt, ledger_id |-> lid]

NoPayload == Payload(PyNone, PyNone, PyNone, PyNone, PyNone)

\* What each caller sends: one credits 100, the other debits 50, each written
\* one of the ways a caller may write it.
KindOf(c) ==
  IF c = "w1" THEN <<PyStr("Credit "), PyInt(100)>> ELSE <<PyStr("debit"), PyStr(" 50 ")>>

\* The requests of caller c that pass validation, with one of the first n ledger ids.
ValidPayloads(c, n) ==
  {Payload(PyStr(a), PyNone, KindOf(c)[1], KindOf(c)[2], PyStr(LedgerId(i))) :
     a \in Accounts, i \in 1..n}

\* Requests with one field missing, of the wrong type or out of range.
InvalidPayloads ==
  LET a == PyStr("1001")
      ty == PyStr("credit")
      am == PyInt(100)
      l == PyStr(LedgerId(1))
  IN  {Payload(x, PyNone, ty, am, l) : x \in {PyNone, PyStr(""), PyStr("  "), PyInt(1001)}}
      \cup {Payload(a, PyNone, ty, am, x) : x \in {PyNone, PyStr(" ")}}
      \cup {Payload(a, PyNone, x, am, l) : x \in {PyNone, PyStr("refund"), PyStr("")}}
      \cup {Payload(a, PyNone, ty, x, l) :
              x \in {PyNone, PyBool(TRUE), PyInt(0), PyInt(0 - 5), PyStr("abc"), PyStr(""),
                     PyStr("-5"), PyStr("0")}}
      \cup {Payload(a, PyStr("1002"), ty, am, l)}

(***************************************************************************)
(* The local variables of create_one_ledger after normalisation.           *)
(***************************************************************************)
\* p.get(name): None for a key the dict does not have.
PayloadGet(p, name) == IF name \in DOMAIN p THEN p[name] ELSE PyNone

Normalise(q) ==
  [account_number |-> _as_str(q.account_number),
   sender_account_number |-> _as_str(q.sender_account_number),
   typ |-> Lower(_as_str(q.type)),
   receiver_account_number |-> _as_str(PayloadGet(q, "receiver_account_number")),
   created_by |-> _as_str(PayloadGet(q, "created_by")),
   ledger_id |-> _as_str(q.ledger_id),
   amount |-> _to_decimal(q.amount)]

NoLocals == Normalise(NoPayload)

\* The early returns: the message of the first failing check, "OK" if none fails.
Validate(n) ==
  IF n.account_number = "" THEN "account_number is required"
  ELSE IF n.ledger_id = "" THEN "ledger_id is required"
  ELSE IF n.typ \notin {"credit", "debit"} THEN "type must be 'credit' or 'debit'"
  ELSE IF n.amount = PyNone THEN "amount must be a positive number"
  ELSE IF n.amount.n <= 0 THEN "amount must be a positive number"
  ELSE IF n.sender_account_number # "" /\ n.sender_account_number # n.account_number
       THEN "account_number must match sender_account_number"
  ELSE "OK"

BalanceAfterAlwaysAdds(ty, balance_before, amt) == balance_before + amt

\* balance_after = balance_before + amount for a credit, - amount for a debit.
BalanceAfter(ty, balance_before, amt) ==
  IF ty = "credit" THEN balance_before + amt ELSE balance_before - amt

NoResult == [is_created |-> FALSE, message |-> ""]
Result(created, message) == [is_created |-> created, message |-> message]

VARIABLES
  table,           \* the DynamoDB table: pk -> item, for the items that exist
  pc,              \* per call: "idle", "get_state", "transact", "done"
  payload,         \* per call: the request dict
  fields,          \* per call: the locals set from the payload, normalised
  attempt,         \* per call: the retry loop's counter
  state_exists,    \* per call: what get_item returned
  latest_balance,
  version,
  result,          \* per call: the returned dict
  next_id,         \* callers: how many ledger ids have been handed out
  commits,         \* history: ledger_id -> the versions written by the
                   \* transactions that put an item with that ledger_id
  now,             \* the clock, in seconds
  created_iso,     \* per call: datetime.now() at second resolution, taken once
  records,         \* per handler invocation: event["Records"]
  idx,             \* per handler invocation: the position of the loop over the records
  failures,        \* per handler invocation: the batchItemFailures collected so far
  results          \* per handler invocation: the result of each record handled so far

consumer_vars == <<records, idx, failures, results>>

vars ==
  <<table, pc, payload, fields, attempt, state_exists, latest_balance, version, result, next_id,
    commits, now, created_iso, consumer_vars>>

StateItem(a, lb, v) ==
  [kind |-> "account_state", account_number |-> a, latest_balance |-> lb, version |-> v]

LedgerItem(n, created, balance_before, balance_after) ==
  [kind |-> "ledger", account_number |-> n.account_number,
   receiver_account_number |-> n.receiver_account_number, ledger_id |-> n.ledger_id,
   created |-> created, created_by |-> n.created_by, type |-> n.typ, amount |-> n.amount.n,
   balance_before |-> balance_before, balance_after |-> balance_after]

\* No handler invocation is running and the clock is at its start.
InitConsumer ==
  /\ now = 0
  /\ created_iso = [c \in Calls |-> 0]
  /\ records = [c \in Calls |-> <<>>]
  /\ idx = [c \in Calls |-> 0]
  /\ failures = [c \in Calls |-> <<>>]
  /\ results = [c \in Calls |-> <<>>]

Init ==
  /\ table = <<>>
  /\ pc = [c \in Calls |-> "idle"]
  /\ payload = [c \in Calls |-> NoPayload]
  /\ fields = [c \in Calls |-> NoLocals]
  /\ attempt = [c \in Calls |-> 0]
  /\ state_exists = [c \in Calls |-> FALSE]
  /\ latest_balance = [c \in Calls |-> 0]
  /\ version = [c \in Calls |-> 0]
  /\ result = [c \in Calls |-> NoResult]
  /\ next_id = 0
  /\ commits = <<>>
  /\ InitConsumer

\* create_one_ledger up to the retry loop: normalise, validate, return early.
InvokeWith(c, q) ==
  /\ pc[c] = "idle"
  /\ payload' = [payload EXCEPT ![c] = q]
  /\ fields' = [fields EXCEPT ![c] = Normalise(q)]
  /\ IF Validate(Normalise(q)) = "OK"
     THEN /\ pc' = [pc EXCEPT ![c] = "get_state"]
          /\ attempt' = [attempt EXCEPT ![c] = 1]
          /\ result' = result
          /\ next_id' = IF Normalise(q).ledger_id = LedgerId(next_id + 1) THEN next_id + 1 ELSE next_id
          /\ created_iso' = [created_iso EXCEPT ![c] = now]
     ELSE /\ pc' = [pc EXCEPT ![c] = "done"]
          /\ attempt' = attempt
          /\ result' = [result EXCEPT ![c] = Result(FALSE, Validate(Normalise(q)))]
          /\ next_id' = next_id
          /\ created_iso' = created_iso
  /\ UNCHANGED <<table, state_exists, latest_balance, version, commits, now, consumer_vars>>

Min(x, y) == IF x < y THEN x ELSE y

\* A caller sends a valid request: a new one, with an id not used before (ids
\* are handed out in order, as they are interchangeable), or a repeat of an
\* earlier id.
Invoke(c) ==
  \E q \in ValidPayloads(c, Min(next_id + 1, NumLedgerIds)) : InvokeWith(c, q)

\* A caller sends any request, valid or not.
InvokeAny(c) ==
  \E q \in ValidPayloads(c, Min(next_id + 1, NumValidationIds)) \cup InvalidPayloads :
    InvokeWith(c, q)

\* A caller sends a valid request with an id not used before.
InvokeFresh(c) ==
  /\ next_id < NumContentionIds
  /\ \E q \in ValidPayloads(c, next_id + 1) :
       /\ q.ledger_id = PyStr(LedgerId(next_id + 1))
       /\ InvokeWith(c, q)

\* table.get_item(Key={"pk": state_pk}, ConsistentRead=True) and the locals set from it.
GetState(c) ==
  /\ pc[c] = "get_state"
  /\ LET state_pk == _state_pk(fields[c].account_number)
         found == state_pk \in DOMAIN table
     IN  /\ state_exists' = [state_exists EXCEPT ![c] = found]
         /\ latest_balance' =
              [latest_balance EXCEPT ![c] = IF found THEN table[state_pk].latest_balance ELSE 0]
         /\ version' = [version EXCEPT ![c] = IF found THEN table[state_pk].version ELSE 0]
  /\ pc' = [pc EXCEPT ![c] = "transact"]
  /\ UNCHANGED <<table, payload, fields, attempt, result, next_id, commits, now, created_iso,
                 consumer_vars>>

VersionConditionUnchecked(t, state_pk, current_version) == state_pk \in DOMAIN t

\* ConditionExpression "#v = :current_version" of the Update of the STATE item.
VersionCondition(t, state_pk, current_version) ==
  /\ state_pk \in DOMAIN t
  /\ t[state_pk].version = current_version

AttributeNotExistsUnchecked(t, pk) == TRUE

\* ConditionExpression "attribute_not_exists(pk)" of a Put.
AttributeNotExists(t, pk) == pk \notin DOMAIN t

NewVersionSkips(v) == v + 2

\* ":new_version": version + 1.
NewVersion(v) == v + 1

\* The CancellationReasons of a cancelled transaction, one per TransactItem.
ReasonCode(ok) == IF ok THEN "None" ELSE "ConditionalCheckFailed"

ShouldRetryNever(reasons) == FALSE

\* The loop over the cancellation reasons that sets should_retry.
ShouldRetry(reasons) ==
  \E i \in 1..Len(reasons) :
    reasons[i] \in {"ConditionalCheckFailed", "ConditionalCheckFailedException"}

\* The except-branch for a TransactionCanceledException: a ValidationError
\* reason ends the call, a failed condition is retried while attempts are left.
CancellationOutcome(reasons, att) ==
  IF \E i \in 1..Len(reasons) :
       /\ reasons[i] = "ValidationError"
       /\ \A j \in 1..(i - 1) : reasons[j] # "ValidationError"
  THEN "Validation error"
  ELSE IF ShouldRetry(reasons) /\ att < max_attempts THEN "retry"
  ELSE "Transaction failed"

CommitsOf(h, l) == IF l \in DOMAIN h THEN h[l] ELSE <<>>

RECURSIVE PutAll(_, _)
PutAll(t, writes) ==
  IF Len(writes) = 0 THEN t
  ELSE PutAll((writes[1].pk :> writes[1].item) @@ t, Tail(writes))

\* A batch of independent conditional writes: each is applied if its own condition holds.
RECURSIVE PutEach(_, _, _)
PutEach(t, conditions, writes) ==
  IF Len(writes) = 0 THEN t
  ELSE PutEach(IF conditions[1] THEN (writes[1].pk :> writes[1].item) @@ t ELSE t,
               Tail(conditions), Tail(writes))

\* TransactWriteItems: every write is applied if every condition holds, none otherwise.
TransactWriteItems(t, conditions, writes) ==
  IF \A i \in 1..Len(conditions) : conditions[i] THEN PutAll(t, writes) ELSE t

\* ddb_client.transact_write_items(...) and what follows it: the return of the
\* created entry, or the except-branch that retries or gives up.
Transact(c) ==
  /\ pc[c] = "transact"
  /\ LET q == fields[c]
         state_pk == _state_pk(q.account_number)
         balance_before == latest_balance[c]
         balance_after == BalanceAfter(q.typ, balance_before, q.amount.n)
         state_ok == IF state_exists[c]
                     THEN VersionCondition(table, state_pk, version[c])
                     ELSE AttributeNotExists(table, state_pk)
         ledger_ok == AttributeNotExists(table, q.ledger_id)
         new_version == IF state_exists[c] THEN NewVersion(version[c]) ELSE 1
         reasons == <<ReasonCode(state_ok), ReasonCode(ledger_ok)>>
     IN  /\ table' = TransactWriteItems(table, <<state_ok, ledger_ok>>,
                       <<[pk |-> state_pk,
                          item |-> StateItem(q.account_number, balance_after, new_version)],
                         [pk |-> q.ledger_id,
                          item |-> LedgerItem(q, created_iso[c], balance_before, balance_after)]>>)
         /\ IF state_ok /\ ledger_ok
            THEN /\ commits' = (q.ledger_id :> Append(CommitsOf(commits, q.ledger_id), new_version))
                               @@ commits
                 /\ pc' = [pc EXCEPT ![c] = "done"]
                 /\ result' = [result EXCEPT ![c] = Result(TRUE, "Created")]
                 /\ attempt' = attempt
                 /\ UNCHANGED <<state_exists, latest_balance, version>>
            ELSE /\ commits' = commits
                 /\ IF CancellationOutcome(reasons, attempt[c]) = "retry"
                    THEN /\ attempt' = [attempt EXCEPT ![c] = attempt[c] + 1]
                         /\ pc' = [pc EXCEPT ![c] = "get_state"]
                         /\ result' = result
                         \* the locals of the failed attempt are dead: the next
                         \* attempt sets them again before it reads them
                         /\ state_exists' = [state_exists EXCEPT ![c] = FALSE]
                         /\ latest_balance' = [latest_balance EXCEPT ![c] = 0]
                         /\ version' = [version EXCEPT ![c] = 0]
                    ELSE /\ pc' = [pc EXCEPT ![c] = "done"]
                         /\ result' = [result EXCEPT ![c] =
                              Result(FALSE, CancellationOutcome(reasons, attempt[c]))]
                         /\ attempt' = attempt
                         /\ UNCHANGED <<state_exists, latest_balance, version>>
  /\ UNCHANGED <<payload, fields, next_id, now, created_iso, consumer_vars>>

\* The caller takes the returned dict; the invocation ends and its locals are gone.
Return(c) ==
  /\ pc[c] = "done"
  /\ pc' = [pc EXCEPT ![c] = "idle"]
  /\ payload' = [payload EXCEPT ![c] = NoPayload]
  /\ fields' = [fields EXCEPT ![c] = NoLocals]
  /\ attempt' = [attempt EXCEPT ![c] = 0]
  /\ state_exists' = [state_exists EXCEPT ![c] = FALSE]
  /\ latest_balance' = [latest_balance EXCEPT ![c] = 0]
  /\ version' = [version EXCEPT ![c] = 0]
  /\ result' = [result EXCEPT ![c] = NoResult]
  /\ created_iso' = [created_iso EXCEPT ![c] = 0]
  /\ UNCHANGED <<table, next_id, commits, now, consumer_vars>>

Next == \E c \in Calls : Invoke(c) \/ GetState(c) \/ Transact(c) \/ Return(c)

Spec == Init /\ [][Next]_vars

\* Callers that also send invalid requests.
NextValidation == \E c \in Calls : InvokeAny(c) \/ GetState(c) \/ Transact(c) \/ Return(c)

SpecValidation == Init /\ [][NextValidation]_vars

\* Two calls, a credit of 100 and a debit of 50 with distinct ledger ids, have
\* been made at the same time on an account without state, and no other call is made.
InitTwoWriters ==
  /\ table = <<>>
  /\ commits = <<>>
  /\ \E a \in Accounts : \E i, j \in 1..NumLedgerIds :
       /\ i # j
       /\ payload = [c \in Calls |->
            Payload(PyStr(a), PyNone, KindOf(c)[1], KindOf(c)[2],
                    PyStr(LedgerId(IF c = "w1" THEN i ELSE j)))]
  /\ fields = [c \in Calls |-> Normalise(payload[c])]
  /\ pc = [c \in Calls |-> "get_state"]
  /\ attempt = [c \in Calls |-> 1]
  /\ state_exists = [c \in Calls |-> FALSE]
  /\ latest_balance = [c \in Calls |-> 0]
  /\ version = [c \in Calls |-> 0]
  /\ result = [c \in Calls |-> NoResult]
  /\ next_id = NumLedgerIds
  /\ InitConsumer

NextTwoWriters == \E c \in Calls : GetState(c) \/ Transact(c)

SpecTwoWriters == InitTwoWriters /\ [][NextTwoWriters]_vars

\* Callers that send only new requests, so that every cancelled transaction is
\* a version conflict.  An invocation that has started runs to its return.
NextContention == \E c \in Calls : InvokeFresh(c) \/ GetState(c) \/ Transact(c) \/ Return(c)

SpecContention ==
  /\ Init
  /\ [][NextContention]_vars
  /\ \A c \in Calls : WF_vars(GetState(c)) /\ WF_vars(Transact(c))

\* Two callers, each with an account of its own.
AccountOf(c) == IF c = "w1" THEN "1001" ELSE "1002"
TwoAccounts == {AccountOf(c) : c \in Calls}

\* A caller sends a valid request for its own account, with an id not used before.
InvokeOwnAccount(c) ==
  /\ next_id < NumContentionIds
  /\ InvokeWith(c, Payload(PyStr(AccountOf(c)), PyNone, KindOf(c)[1], KindOf(c)[2],
                           PyStr(LedgerId(next_id + 1))))

NextTwoAccounts ==
  \E c \in Calls : InvokeOwnAccount(c) \/ GetState(c) \/ Transact(c) \/ Return(c)

SpecTwoAccounts == Init /\ [][NextTwoAccounts]_vars

(***************************************************************************)
(* create_double_entry (record_transfer) of build/lambda_function.py: a    *)
(* lookup of the transaction_id in the by-transaction index, then one      *)
(* transaction that puts the debit leg and the credit leg under two        *)
(* uuid4 keys.  It writes to the same table.                               *)
(***************************************************************************)
TransactionId(i) == "t" \o ToString(i)
Uuid(i) == "u" \o ToString(i)

Uuids == {Uuid(i) : i \in 1..NumUuids}

\* str(uuid4()): some id, as far as the program can tell any id.  It is an id
\* that is taken (one of used), or a new one: the new ids are interchangeable,
\* so the first of them stands for all.
uuid4(used) ==
  (Uuids \cap used)
    \cup {Uuid(i) : i \in {j \in 1..NumUuids :
                             /\ Uuid(j) \notin used
                             /\ \A h \in 1..(j - 1) : Uuid(h) \in used}}

TransferPayload(creator, sender, receiver, tid, amt, by) ==
  [creator_account_number |-> creator, sender_account_number |-> sender,
   receiver_account_number |-> receiver, transaction_id |-> tid, amount |-> amt,
   created_by |-> by]

\* What a caller of create_double_entry sends: 100 from "1001" to "2001".
ValidTransferPayloads ==
  {TransferPayload(PyStr("1001"), PyStr(" 1001"), PyStr("2001"), PyStr(TransactionId(i)),
                   PyInt(100), by) :
     i \in 1..NumTransactionIds, by \in {PyStr("00001"), PyNone}}

\* Requests with one field missing or out of range, or made by another account than the sender.
InvalidTransferPayloads ==
  LET a == PyStr("1001")
      b == PyStr("2001")
      t == PyStr(TransactionId(1))
      am == PyInt(100)
      by == PyStr("00001")
  IN  {TransferPayload(x, a, b, t, am, by) : x \in {PyNone, PyStr(" "), PyStr("1002"), b}}
      \cup {TransferPayload(a, x, b, t, am, by) : x \in {PyNone, PyStr("1002")}}
      \cup {TransferPayload(a, a, x, t, am, by) : x \in {PyNone, PyStr("")}}
      \cup {TransferPayload(a, a, b, x, am, by) : x \in {PyNone, PyStr(" ")}}
      \cup {TransferPayload(a, a, b, t, x, by) : x \in {PyNone, PyInt(0), PyStr("-5"), PyBool(TRUE)}}
      \cup {TransferPayload(a, a, b, t, am, x) : x \in {PyStr("1"), PyStr("abcde")}}

\* The local variables of create_double_entry.
NormaliseTransfer(q) ==
  [creator_account_number |-> _as_str(q.creator_account_number),
   sender_account_number |-> _as_str(q.sender_account_number),
   receiver_account_number |-> _as_str(q.receiver_account_number),
   transaction_id |-> _as_str(q.transaction_id),
   amount |-> _to_decimal(q.amount),
   sender_account_name |-> _as_str(PayloadGet(q, "sender_account_name")),
   receiver_account_name |-> _as_str(PayloadGet(q, "receiver_account_name")),
   description |-> _as_str(PayloadGet(q, "description")),
   created_by |-> _as_str(q.created_by)]

CreatorDiffersNever(n) == FALSE

\* creator_account_number != sender_account_number
CreatorDiffers(n) == n.creator_account_number # n.sender_account_number

\* The early returns of create_double_entry: the message of the first failing check.
ValidateTransfer(n) ==
  IF n.creator_account_number = "" THEN "Missing creator_account_number"
  ELSE IF n.sender_account_number = "" THEN "Missing sender_account_number"
  ELSE IF n.receiver_account_number = "" THEN "Missing receiver_account_number"
  ELSE IF n.transaction_id = "" THEN "Missing transaction_id"
  ELSE IF n.amount = PyNone THEN "Invalid amount (must be > 0)"
  ELSE IF n.amount.n <= 0 THEN "Invalid amount (must be > 0)"
  ELSE IF CreatorDiffers(n)
       THEN "Rejected: creator_account_number must equal sender_account_number"
  ELSE IF n.created_by # "" /\ ~(Len(n.created_by) = 5 /\ AllDigits(n.created_by))
       THEN "Invalid created_by (must be 5 digits)"
  ELSE "OK"

\* debit_item / credit_item
LegItem(n, created, ledger_id, ty) ==
  [kind |-> "double_entry", ledger_id |-> ledger_id, transaction_id |-> n.transaction_id,
   gsi_3_sk |-> ty, created |-> created, type |-> ty, amount |-> n.amount.n,
   creator_account_number |-> n.creator_account_number,
   sender_account_number |-> n.sender_account_number,
   sender_account_name |-> n.sender_account_name,
   receiver_account_number |-> n.receiver_account_number,
   receiver_account_name |-> n.receiver_account_name,
   description |-> n.description]

\* The items the by-transaction index (gsi_3_pk = transaction_id) holds for a transaction_id.
LegsOf(t, tid) ==
  {k \in DOMAIN t : t[k].kind = "double_entry" /\ t[k].transaction_id = tid}

\* create_double_entry up to the lookup: normalise, validate, return early.
TransferBegin(c, q) ==
  /\ payload' = [payload EXCEPT ![c] = q]
  /\ fields' = [fields EXCEPT ![c] = NormaliseTransfer(q)]
  /\ IF ValidateTransfer(NormaliseTransfer(q)) = "OK"
     THEN /\ pc' = [pc EXCEPT ![c] = "exists"]
          /\ result' = result
     ELSE /\ pc' = [pc EXCEPT ![c] = "done"]
          /\ result' = [result EXCEPT ![c] = Result(FALSE, ValidateTransfer(NormaliseTransfer(q)))]
  /\ UNCHANGED <<table, attempt, state_exists, latest_balance, version, next_id, commits, now,
                 created_iso>>

\* A direct call of create_double_entry.
TransferInvokeWith(c, q) ==
  /\ pc[c] = "idle"
  /\ TransferBegin(c, q)
  /\ UNCHANGED consumer_vars

\* A caller sends a valid transfer request.
TransferInvoke(c) == \E q \in ValidTransferPayloads : TransferInvokeWith(c, q)

\* A caller sends any transfer request, valid or not.
TransferInvokeAny(c) ==
  \E q \in ValidTransferPayloads \cup InvalidTransferPayloads : TransferInvokeWith(c, q)

\* _transaction_exists: Count > 0 of the query, False when the query raises a ClientError.
_transaction_exists(t, transaction_id, client_error) ==
  IF client_error THEN FALSE ELSE LegsOf(t, transaction_id) # {}

\* "if enforce_unique_transaction and _transaction_exists(transaction_id)",
\* then datetime.now() for the call that goes on.
TransactionExists(c) ==
  /\ pc[c] = "exists"
  /\ \E client_error \in BOOLEAN :
       IF _transaction_exists(table, fields[c].transaction_id, client_error)
       THEN /\ pc' = [pc EXCEPT ![c] = "done"]
            /\ result' = [result EXCEPT ![c] =
                 Result(FALSE, "Transaction already exists (transaction_id)")]
            /\ created_iso' = created_iso
       ELSE /\ pc' = [pc EXCEPT ![c] = "transact"]
            /\ result' = result
            /\ created_iso' = [created_iso EXCEPT ![c] = now]
  /\ UNCHANGED <<table, payload, fields, attempt, state_exists, latest_balance, version, next_id,
                 commits, now, consumer_vars>>

\* ddb.transact_write_items with the two Puts, and the return or the except
\* branch after it.  A ClientError other than a cancellation (client_error),
\* and the two legs under one key, leave the table as it is.
TransferTransact(c) ==
  /\ pc[c] = "transact"
  /\ \E debit_ledger_id \in uuid4(DOMAIN table) :
     \E credit_ledger_id \in uuid4(DOMAIN table \cup {debit_ledger_id}) :
     \E client_error \in BOOLEAN :
       LET n == fields[c]
           accepted == ~client_error /\ debit_ledger_id # credit_ledger_id
           conditions == <<AttributeNotExists(table, debit_ledger_id),
                           AttributeNotExists(table, credit_ledger_id)>>
           writes == <<[pk |-> debit_ledger_id,
                        item |-> LegItem(n, created_iso[c], debit_ledger_id, "debit")],
                       [pk |-> credit_ledger_id,
                        item |-> LegItem(n, created_iso[c], credit_ledger_id, "credit")]>>
       IN  /\ table' = IF accepted THEN TransactWriteItems(table, conditions, writes) ELSE table
           /\ result' = [result EXCEPT ![c] =
                IF accepted /\ conditions = <<TRUE, TRUE>>
                THEN Result(TRUE, "Created debit=" \o debit_ledger_id \o " and credit="
                                    \o credit_ledger_id \o " for transaction_id="
                                    \o n.transaction_id)
                ELSE Result(FALSE, "DynamoDB error: " \o
                                   (IF accepted THEN "Transaction cancelled"
                                    ELSE IF client_error THEN "Throughput exceeded"
                                    ELSE "Transaction request cannot include multiple operations on one item"))]
  /\ pc' = [pc EXCEPT ![c] = "done"]
  /\ UNCHANGED <<payload, fields, attempt, state_exists, latest_balance, version, next_id,
                 commits, now, created_iso, consumer_vars>>

\* sender_account_name, receiver_account_name and description of a transfer request.
TransferNames(sender_name, receiver_name, description) ==
  [sender_account_name |-> sender_name, receiver_account_name |-> receiver_name,
   description |-> description]

\* Transfer requests of 100 from "1001" to "2001" that are complete, and ones
\* in which one of sender_account_name, receiver_account_name, description and
\* created_by is None or empty.
NamedTransferPayloads ==
  LET a == PyStr("1001")
      b == PyStr("2001")
      sn == PyStr("JEF Main")
      rn == PyStr("Supplier A")
      ds == PyStr("Payment for feed")
      base(i, by) == TransferPayload(a, a, b, PyStr(TransactionId(i)), PyInt(100), by)
  IN  UNION {{TransferNames(sn, rn, ds) @@ base(i, PyStr("00001")),
              TransferNames(PyNone, rn, ds) @@ base(i, PyStr("00001")),
              TransferNames(sn, PyStr(" "), ds) @@ base(i, PyStr("00001")),
              TransferNames(sn, rn, PyStr("")) @@ base(i, PyStr("00001")),
              TransferNames(sn, rn, ds) @@ base(i, PyNone),
              TransferNames(sn, rn, ds) @@ base(i, PyStr(" "))} : i \in 1..NumTransactionIds}

\* A caller sends a transfer request with or without its names, description
\* and created_by; the calls follow one another.
TransferInvokeNamed(c) == \E q \in NamedTransferPayloads : TransferInvokeWith(c, q)

NextTransferNames ==
  \/ TransferInvokeNamed("w1") \/ TransactionExists("w1") \/ TransferTransact("w1")
  \/ Return("w1")

SpecTransferNames == Init /\ [][NextTransferNames]_vars

NextTransfer ==
  \E c \in Calls : TransferInvoke(c) \/ TransactionExists(c) \/ TransferTransact(c) \/ Return(c)

SpecTransfer == Init /\ [][NextTransfer]_vars

\* Transfer calls made one after the other: a call is made when no other is running.
TransferInvokeAlone(c) ==
  /\ \A d \in Calls \ {c} : pc[d] = "idle"
  /\ TransferInvoke(c)

NextTransferSequential ==
  \E c \in Calls :
    TransferInvokeAlone(c) \/ TransactionExists(c) \/ TransferTransact(c) \/ Return(c)

SpecTransferSequential == Init /\ [][NextTransferSequential]_vars

\* The two writers side by side on the table: one caller of create_one_ledger
\* and one of create_double_entry, each sending any request, valid or not.
NextInitiator ==
  \/ InvokeAny("w1") \/ GetState("w1") \/ Transact("w1")
  \/ TransferInvokeAny("w2") \/ TransactionExists("w2") \/ TransferTransact("w2")
  \/ \E c \in Calls : Return(c)

SpecInitiator == Init /\ [][NextInitiator]_vars

(***************************************************************************)
(* The SQS consumers.  A handler invocation takes a batch of records,      *)
(* handles them in order with the writer's steps, and returns; the queue   *)
(* deletes the messages of a batch that the returned value does not report *)
(* as failed.                                                              *)
(***************************************************************************)
MessageId(i) == "m" \o ToString(i)

\* The invocations of a consumer follow one another.
Consumers == {"w1"}

\* str.startswith and "in" for strings
StartsWith(s, prefix) == Len(s) >= Len(prefix) /\ SubSeq(s, 1, Len(prefix)) = prefix
Contains(s, part) ==
  \E i \in 1..(Len(s) - Len(part) + 1) : SubSeq(s, i, i + Len(part) - 1) = part

\* event["Records"] with the given bodies: messageId and body of each record.
Records(bodies) == [i \in DOMAIN bodies |-> [messageId |-> MessageId(i), body |-> bodies[i]]]

\* The batches of at most MaxBatch records with bodies from a set.
Batches(bodies) == UNION {{Records(b) : b \in [1..k -> bodies]} : k \in 1..MaxBatch}

\* isinstance(body, dict) for a parsed body: a request dict, or None for a body that is no JSON.
IsDict(body) == "t" \notin DOMAIN body

\* The locals of the writer are gone when it has returned.
ForgetCall(c) ==
  /\ payload' = [payload EXCEPT ![c] = NoPayload]
  /\ fields' = [fields EXCEPT ![c] = NoLocals]
  /\ attempt' = [attempt EXCEPT ![c] = 0]
  /\ state_exists' = [state_exists EXCEPT ![c] = FALSE]
  /\ latest_balance' = [latest_balance EXCEPT ![c] = 0]
  /\ version' = [version EXCEPT ![c] = 0]
  /\ result' = [result EXCEPT ![c] = NoResult]
  /\ created_iso' = [created_iso EXCEPT ![c] = 0]

\* The invocation is over: the queue has the returned value.
EndInvocation(c) ==
  /\ pc[c] = "returned"
  /\ pc' = [pc EXCEPT ![c] = "idle"]
  /\ records' = [records EXCEPT ![c] = <<>>]
  /\ idx' = [idx EXCEPT ![c] = 0]
  /\ failures' = [failures EXCEPT ![c] = <<>>]
  /\ results' = [results EXCEPT ![c] = <<>>]
  /\ UNCHANGED <<table, payload, fields, attempt, state_exists, latest_balance, version, result,
                 next_id, commits, now, created_iso>>

\* The bodies of the messages on the transfer queue: requests, and a body that is no JSON.
TransferBodies ==
  {q \in ValidTransferPayloads : q.created_by # PyNone} \cup {PyNone}

\* lambda_handler of build/lambda_function.py is invoked with a batch of transfer requests.
TransferDeliver(c) ==
  /\ pc[c] = "idle"
  /\ \E b \in Batches(TransferBodies) : records' = [records EXCEPT ![c] = b]
  /\ idx' = [idx EXCEPT ![c] = 1]
  /\ pc' = [pc EXCEPT ![c] = "record"]
  /\ UNCHANGED <<table, payload, fields, attempt, state_exists, latest_balance, version, result,
                 next_id, commits, now, created_iso, failures, results>>

\* "for r in records": a body that is no dict is noted and skipped, a dict is
\* given to create_double_entry.
TransferRecord(c) ==
  /\ pc[c] = "record"
  /\ idx[c] <= Len(records[c])
  /\ LET r == records[c][idx[c]]
     IN  IF IsDict(r.body)
         THEN /\ TransferBegin(c, r.body)
              /\ UNCHANGED consumer_vars
         ELSE /\ results' = [results EXCEPT ![c] =
                   Append(@, [messageId |-> r.messageId, ok |-> FALSE,
                              result |-> Result(FALSE, "Invalid body")])]
              /\ idx' = [idx EXCEPT ![c] = idx[c] + 1]
              /\ UNCHANGED <<table, pc, payload, fields, attempt, state_exists, latest_balance,
                             version, result, next_id, commits, now, created_iso, records,
                             failures>>

\* results.append({"messageId": msg_id, "ok": is_created, "result": res})
TransferCollect(c) ==
  /\ pc[c] = "done"
  /\ results' = [results EXCEPT ![c] =
       Append(@, [messageId |-> records[c][idx[c]].messageId, ok |-> result[c].is_created,
                  result |-> result[c]])]
  /\ idx' = [idx EXCEPT ![c] = idx[c] + 1]
  /\ pc' = [pc EXCEPT ![c] = "record"]
  /\ ForgetCall(c)
  /\ UNCHANGED <<table, next_id, commits, now, records, failures>>

\* The loop is over: the handler returns its summary, which names no failed
\* message, so the queue deletes the whole batch.
TransferHandlerReturn(c) ==
  /\ pc[c] = "record"
  /\ idx[c] > Len(records[c])
  /\ pc' = [pc EXCEPT ![c] = "returned"]
  /\ UNCHANGED <<table, payload, fields, attempt, state_exists, latest_balance, version, result,
                 next_id, commits, now, created_iso, consumer_vars>>

NextTransferConsumer ==
  \E c \in Consumers :
    \/ TransferDeliver(c) \/ TransferRecord(c) \/ TransactionExists(c) \/ TransferTransact(c)
    \/ TransferCollect(c) \/ TransferHandlerReturn(c) \/ EndInvocation(c)

SpecTransferConsumer == Init /\ [][NextTransferConsumer]_vars

(***************************************************************************)
(* The SQS ledger consumer, lambda_function.py: _validate_message_payload, *)
(* its own create_one_ledger (get_item without ConsistentRead; for an      *)
(* existing STATE item a ConditionCheck and an Update on the STATE key in  *)
(* one transaction; every cancelled transaction tried again) and the       *)
(* handler that sorts the results into batchItemFailures.                  *)
(***************************************************************************)
\* for _attempt in range(1, 6)
last_attempt == 5

\* What a call of the store can end in besides its answer: a ClientError that
\* is no cancellation (throttling, ...), or an exception that is no
\* ClientError (no connection, timeout, ...).
StoreFaults == {"none", "ClientError", "Exception"}

MessageKeys ==
  <<"account_number", "sender_account_number", "sender_account_name",
    "receiver_account_number", "receiver_account_name", "type", "description", "amount",
    "created_by", "ledger_id">>

\* The body of a message, parsed: the ten fields the producer sends.
Body(acct, sender, ty, amt, lid, by) ==
  [account_number |-> acct, sender_account_number |-> sender,
   sender_account_name |-> PyStr("JEF Main"), receiver_account_number |-> PyStr("2001"),
   receiver_account_name |-> PyStr("Supplier A"), type |-> ty,
   description |-> PyStr("Payment for feed"), amount |-> amt, created_by |-> by,
   ledger_id |-> lid]

\* The bodies on the ledger queue: a credit of 100 to "1001" with one of the
\* first n ledger ids, a body without created_by, one whose sender is another
\* account, and one whose amount is NaN.
LedgerBodies(n) ==
  LET a == PyStr("1001")
      ty == PyStr("Credit")
      am == Dec(100)
      by == PyStr("00001")
  IN  {Body(a, a, ty, am, PyStr(LedgerId(i)), by) : i \in 1..n}
      \cup {Body(a, a, ty, am, PyStr(LedgerId(1)), PyNone),
            Body(a, PyStr("1002"), ty, am, PyStr(LedgerId(1)), by),
            Body(a, a, ty, PyNaN, PyStr(LedgerId(1)), by)}

\* msg of _validate_message_payload
NormaliseMessage(p) ==
  [k \in {MessageKeys[i] : i \in 1..Len(MessageKeys)} |->
     IF k = "amount" THEN _to_decimal(p[k])
     ELSE IF k = "type" THEN PyStr(Lower(_as_str(p[k])))
     ELSE PyStr(_as_str(p[k]))]

\* missing, in the order of the keys of msg
RECURSIVE Missing(_, _)
Missing(msg, keys) ==
  IF Len(keys) = 0 THEN <<>>
  ELSE (IF msg[Head(keys)] = (IF Head(keys) = "amount" THEN PyNone ELSE PyStr(""))
        THEN <<Head(keys)>> ELSE <<>>) \o Missing(msg, Tail(keys))

\* ', '.join(missing)
RECURSIVE Join(_)
Join(names) ==
  IF Len(names) = 0 THEN ""
  ELSE IF Len(names) = 1 THEN names[1]
  ELSE names[1] \o ", " \o Join(Tail(names))

\* _validate_message_payload: (ok, reason, msg), or the InvalidOperation that
\* the comparison of a NaN amount with 0 raises.
_validate_message_payload(p) ==
  LET msg == NormaliseMessage(p)
      missing == Missing(msg, MessageKeys)
      answer(ok, reason, raised) == [ok |-> ok, reason |-> reason, msg |-> msg, raised |-> raised]
  IN  IF Len(missing) > 0
      THEN answer(FALSE, "Missing/invalid fields: " \o Join(missing), FALSE)
      ELSE IF msg.type.s \notin {"credit", "debit"}
      THEN answer(FALSE, "Invalid type. Must be 'credit' or 'debit'.", FALSE)
      ELSE IF msg.amount = DecNaN THEN answer(FALSE, "InvalidOperation", TRUE)
      ELSE IF msg.amount.n <= 0 THEN answer(FALSE, "amount must be a positive number", FALSE)
      ELSE answer(TRUE, "OK", FALSE)

\* What a read of the STATE item without ConsistentRead can return: the item
\* as it is now or as it was after some earlier commit, or no item.
SnapshotsOf(a) ==
  {[exists |-> FALSE, latest_balance |-> 0, version |-> 0]}
    \cup {[exists |-> TRUE, latest_balance |-> table[l].balance_after, version |-> commits[l][i]] :
            <<l, i>> \in {x \in (DOMAIN commits) \X {1} :
                            table[x[1]].kind = "ledger" /\ table[x[1]].account_number = a}}

\* The answer of get_item for the STATE item of an account: the item if it
\* exists and the read is up to date, else one of the older snapshots.
GetItemAnswers(a) ==
  IF _state_pk(a) \in DOMAIN table
  THEN SnapshotsOf(a)
  ELSE {[exists |-> FALSE, latest_balance |-> 0, version |-> 0]}

\* The lambda is invoked with a batch of records from the ledger queue.  At
\* most one ledger id of the batch is new.
Deliver(c) ==
  /\ pc[c] = "idle"
  /\ \E b \in Batches(LedgerBodies(Min(next_id + 1, NumQueuedIds))) :
       /\ records' = [records EXCEPT ![c] = b]
       /\ next_id' = IF \E i \in 1..Len(b) : b[i].body.ledger_id = PyStr(LedgerId(next_id + 1))
                     THEN next_id + 1 ELSE next_id
  /\ idx' = [idx EXCEPT ![c] = 1]
  /\ pc' = [pc EXCEPT ![c] = "record"]
  /\ UNCHANGED <<table, payload, fields, attempt, state_exists, latest_balance, version, result,
                 commits, now, created_iso, failures, results>>

\* "for r in records", up to the retry loop of create_one_ledger: an invalid
\* payload is skipped, an exception of the validation puts the message into
\* failures, a valid payload goes to create_one_ledger, which has its own
\* early returns.
HandleRecord(c) ==
  /\ pc[c] = "record"
  /\ idx[c] <= Len(records[c])
  /\ LET r == records[c][idx[c]]
         v == _validate_message_payload(r.body)
         note(res) == [messageId |-> r.messageId, ok |-> FALSE, result |-> res]
     IN  IF v.raised \/ ~v.ok
         THEN /\ failures' = [failures EXCEPT ![c] =
                   IF v.raised THEN Append(@, [itemIdentifier |-> r.messageId]) ELSE @]
              /\ results' = [results EXCEPT ![c] =
                   Append(@, note(Result(FALSE, IF v.raised THEN "exception: " \o v.reason
                                                ELSE v.reason)))]
              /\ idx' = [idx EXCEPT ![c] = idx[c] + 1]
              /\ UNCHANGED <<pc, payload, fields, attempt, result, created_iso>>
         ELSE /\ payload' = [payload EXCEPT ![c] = v.msg]
              /\ fields' = [fields EXCEPT ![c] = Normalise(v.msg)]
              /\ IF Validate(Normalise(v.msg)) = "OK"
                 THEN /\ pc' = [pc EXCEPT ![c] = "get_state"]
                      /\ attempt' = [attempt EXCEPT ![c] = 1]
                      /\ created_iso' = [created_iso EXCEPT ![c] = now]
                      /\ result' = result
                 ELSE /\ pc' = [pc EXCEPT ![c] = "done"]
                      /\ result' = [result EXCEPT ![c] =
                           Result(FALSE, Validate(Normalise(v.msg)))]
                      /\ UNCHANGED <<attempt, created_iso>>
              /\ UNCHANGED <<idx, failures, results>>
  /\ UNCHANGED <<table, state_exists, latest_balance, version, next_id, commits, now, records>>

\* The end of create_one_ledger by one of its except branches.
StoreFaultResult(fault) ==
  IF fault = "ClientError"
  THEN Result(FALSE, "DynamoDB error: ProvisionedThroughputExceededException: rate exceeded")
  ELSE Result(FALSE, "Unexpected error: connection to the endpoint failed")

\* table.get_item(Key=state_key), without ConsistentRead, and the locals set from it.
GetStateB(c) ==
  /\ pc[c] = "get_state"
  /\ \E fault \in StoreFaults :
       IF fault # "none"
       THEN /\ pc' = [pc EXCEPT ![c] = "done"]
            /\ result' = [result EXCEPT ![c] = StoreFaultResult(fault)]
            /\ UNCHANGED <<state_exists, latest_balance, version>>
       ELSE /\ \E item \in GetItemAnswers(fields[c].account_number) :
                 /\ state_exists' = [state_exists EXCEPT ![c] = item.exists]
                 /\ latest_balance' = [latest_balance EXCEPT ![c] = item.latest_balance]
                 /\ version' = [version EXCEPT ![c] = item.version]
            /\ pc' = [pc EXCEPT ![c] = "transact"]
            /\ result' = result
  /\ UNCHANGED <<table, payload, fields, attempt, next_id, commits, now, created_iso,
                 consumer_vars>>

\* DynamoDB rejects, with a ValidationException, a transaction with two
\* operations on one item.
MultipleOperationsOnOneItem(keys) ==
  \E i, j \in 1..Len(keys) : i # j /\ keys[i] = keys[j]

\* ddb_client.transact_write_items(...) of lambda_function.py and what follows
\* it: the return of the created entry, "continue" after a cancellation, the
\* except branches, the return after the loop.
TransactB(c) ==
  /\ pc[c] = "transact"
  /\ \E fault \in StoreFaults :
       LET q == fields[c]
           state_pk == _state_pk(q.account_number)
           balance_before == latest_balance[c]
           balance_after == BalanceAfter(q.typ, balance_before, q.amount.n)
           keys == IF state_exists[c] THEN <<state_pk, state_pk, q.ledger_id>>
                   ELSE <<state_pk, q.ledger_id>>
           conditions ==
             IF state_exists[c]
             THEN <<VersionCondition(table, state_pk, version[c]), TRUE,
                    AttributeNotExists(table, q.ledger_id)>>
             ELSE <<AttributeNotExists(table, state_pk), AttributeNotExists(table, q.ledger_id)>>
           new_version == IF state_exists[c] THEN NewVersion(version[c]) ELSE 1
           writes == <<[pk |-> state_pk,
                        item |-> StateItem(q.account_number, balance_after, new_version)],
                       [pk |-> q.ledger_id,
                        item |-> LedgerItem(q, created_iso[c], balance_before, balance_after)]>>
           rejected == fault = "none" /\ MultipleOperationsOnOneItem(keys)
           committed == /\ fault = "none" /\ ~rejected
                        /\ \A i \in 1..Len(conditions) : conditions[i]
           cancelled == fault = "none" /\ ~rejected /\ ~committed
       IN  /\ table' = IF fault = "none" /\ ~rejected
                       THEN TransactWriteItems(table, conditions, writes) ELSE table
           /\ commits' = IF committed
                         THEN (q.ledger_id :> Append(CommitsOf(commits, q.ledger_id), new_version))
                              @@ commits
                         ELSE commits
           /\ IF cancelled /\ attempt[c] < last_attempt
              THEN /\ attempt' = [attempt EXCEPT ![c] = attempt[c] + 1]
                   /\ pc' = [pc EXCEPT ![c] = "get_state"]
                   /\ result' = result
                   /\ state_exists' = [state_exists EXCEPT ![c] = FALSE]
                   /\ latest_balance' = [latest_balance EXCEPT ![c] = 0]
                   /\ version' = [version EXCEPT ![c] = 0]
              ELSE /\ pc' = [pc EXCEPT ![c] = "done"]
                   /\ result' = [result EXCEPT ![c] =
                        IF committed THEN Result(TRUE, "Created")
                        ELSE IF cancelled
                        THEN Result(FALSE, "conflict: too many concurrent updates, retry")
                        ELSE IF rejected
                        THEN Result(FALSE, "DynamoDB error: ValidationException: Transaction "
                                           \o "request cannot include multiple operations on one item")
                        ELSE StoreFaultResult(fault)]
                   /\ UNCHANGED <<attempt, state_exists, latest_balance, version>>
  /\ UNCHANGED <<payload, fields, next_id, now, created_iso, consumer_vars>>

\* ddb_client.transact_write_items(...) of lambda_function.py ends in a
\* TransactionCanceledException whose reasons name no failed condition (a
\* TransactionConflict, a ThrottlingError, ...): nothing is written, and the
\* except branch goes on as after any cancellation.
TransactCancelledB(c) ==
  /\ pc[c] = "transact"
  /\ IF attempt[c] < last_attempt
     THEN /\ attempt' = [attempt EXCEPT ![c] = attempt[c] + 1]
          /\ pc' = [pc EXCEPT ![c] = "get_state"]
          /\ result' = result
          /\ state_exists' = [state_exists EXCEPT ![c] = FALSE]
          /\ latest_balance' = [latest_balance EXCEPT ![c] = 0]
          /\ version' = [version EXCEPT ![c] = 0]
     ELSE /\ pc' = [pc EXCEPT ![c] = "done"]
          /\ result' = [result EXCEPT ![c] =
               Result(FALSE, "conflict: too many concurrent updates, retry")]
          /\ UNCHANGED <<attempt, state_exists, latest_balance, version>>
  /\ UNCHANGED <<table, payload, fields, next_id, commits, now, created_iso, consumer_vars>>

\* The handler after create_one_ledger: a created record and a refused one
\* are done with, a "DynamoDB error:" and a "conflict: ..." go into failures.
Classify(c) ==
  /\ pc[c] = "done"
  /\ LET r == records[c][idx[c]]
         msg == _as_str(PyStr(result[c].message))
     IN  /\ failures' = [failures EXCEPT ![c] =
              IF result[c].is_created = TRUE THEN @
              ELSE IF StartsWith(msg, "DynamoDB error:")
              THEN Append(@, [itemIdentifier |-> r.messageId])
              ELSE IF Contains(msg, "conflict: too many concurrent updates")
              THEN Append(@, [itemIdentifier |-> r.messageId])
              ELSE @]
         /\ results' = [results EXCEPT ![c] =
              Append(@, [messageId |-> r.messageId, ok |-> result[c].is_created,
                         result |-> result[c]])]
  /\ idx' = [idx EXCEPT ![c] = idx[c] + 1]
  /\ pc' = [pc EXCEPT ![c] = "record"]
  /\ ForgetCall(c)
  /\ UNCHANGED <<table, next_id, commits, now, records>>

\* return {"batchItemFailures": failures}
HandlerReturn(c) ==
  /\ pc[c] = "record"
  /\ idx[c] > Len(records[c])
  /\ pc' = [pc EXCEPT ![c] = "returned"]
  /\ UNCHANGED <<table, payload, fields, attempt, state_exists, latest_balance, version, result,
                 next_id, commits, now, created_iso, consumer_vars>>

NextLedgerConsumer ==
  \E c \in Consumers :
    \/ Deliver(c) \/ HandleRecord(c) \/ GetStateB(c) \/ TransactB(c) \/ Classify(c)
    \/ HandlerReturn(c) \/ EndInvocation(c)

SpecLedgerConsumer == Init /\ [][NextLedgerConsumer]_vars

\* The ledger consumer on a store that also cancels transactions for other
\* reasons than a failed condition.
NextCancelledB == NextLedgerConsumer \/ \E c \in Consumers : TransactCancelledB(c)

SpecCancelledB == Init /\ [][NextCancelledB]_vars

(***************************************************************************)
(* get_latest_balance of jef-wallets-ledgers-get-latest-balance, the       *)
(* reader of the by-account index gsi_1 (gsi_1_pk = account_number,        *)
(* gsi_1_sk = created "#" ledger_id), and the clock the writer takes       *)
(* created from.                                                           *)
(***************************************************************************)
\* A second passes.
Tick ==
  /\ now < MaxClock
  /\ now' = now + 1
  /\ UNCHANGED <<table, pc, payload, fields, attempt, state_exists, latest_balance, version,
                 result, next_id, commits, created_iso, consumer_vars>>

\* The characters of the keys, in the order of their codes.
Ascii == "#0123456789ABCDEFGHIJKLMNOPQRSTUVWXYZabcdefghijklmnopqrstuvwxyz"
Code(ch) == CHOOSE i \in 1..Len(Ascii) : SubSeq(Ascii, i, i) = ch

\* The order of strings in a sort key.
RECURSIVE StrLess(_, _)
StrLess(a, b) ==
  IF Len(b) = 0 THEN FALSE
  ELSE IF Len(a) = 0 THEN TRUE
  ELSE IF SubSeq(a, 1, 1) # SubSeq(b, 1, 1) THEN Code(SubSeq(a, 1, 1)) < Code(SubSeq(b, 1, 1))
  ELSE StrLess(SubSeq(a, 2, Len(a)), SubSeq(b, 2, Len(b)))

\* The order of gsi_1_sk = f"{created_iso}#{ledger_id}": created_iso has a fixed
\* length and one UTC offset, so it is ordered as the time it stands for.
SortKeyLess(x, y) ==
  \/ x.created < y.created
  \/ x.created = y.created /\ StrLess(x.ledger_id, y.ledger_id)

\* The items of gsi_1 with gsi_1_pk = account_number.
Gsi1Items(t, account_number) ==
  {k \in DOMAIN t : t[k].kind = "ledger" /\ t[k].account_number = account_number}

\* get_latest_balance: the query with ScanIndexForward=False and Limit=1, and
\* the returned exists and latest_balance.
get_latest_balance(t, account) ==
  LET account_number == _as_str(account)
      items == Gsi1Items(t, account_number)
  IN  IF account_number = "" \/ items = {}
      THEN [exists |-> FALSE, latest_balance |-> 0]
      ELSE LET it == CHOOSE k \in items : \A o \in items \ {k} : SortKeyLess(t[o], t[k])
           IN  [exists |-> TRUE, latest_balance |-> t[it].balance_after]

\* A caller sends a valid request with an id not used before, one of the first NumClockIds.
InvokeTimed(c) ==
  /\ next_id < NumClockIds
  /\ InvokeWith(c, Payload(PyStr("1001"), PyNone, KindOf(c)[1], KindOf(c)[2],
                           PyStr(LedgerId(next_id + 1))))

\* The writer with time passing between and during its calls.
NextClock ==
  \/ \E c \in Calls : InvokeTimed(c) \/ GetState(c) \/ Transact(c) \/ Return(c)
  \/ Tick

SpecClock == Init /\ [][NextClock]_vars

(***************************************************************************)
(* verify_sufficient_funds of jef-wallets-verify-sufficient-funds: a query *)
(* of the table for the items with pk = entity_number, and the comparison  *)
(* of the first item's balance with the amount.                            *)
(***************************************************************************)
\* str(x) of a payload value
PyStrOf(v) ==
  CASE v.t = "none" -> "None"
    [] v.t = "str" -> v.s
    [] v.t = "int" -> ToString(v.n)
    [] v.t = "bool" -> IF v.b THEN "True" ELSE "False"
    [] OTHER -> "NaN"

\* _to_decimal(x, default=None) of verify-sufficient-funds: a bool is an int
\* there, and Decimal("True") raises InvalidOperation outside the try.
FundsToDecimal(v) ==
  CASE v.t = "none" -> PyNone
    [] v.t = "dec" -> v
    [] v.t = "int" -> Dec(v.n)
    [] v.t = "bool" -> [t |-> "raise"]
    [] v.t = "float" -> DecNaN
    [] v.t = "str" -> IF Len(Strip(v.s)) = 0 THEN PyNone ELSE DecimalOfString(Strip(v.s))
    [] OTHER -> PyNone

FundsPayload(entity_number, amt) == [entity_number |-> entity_number, amount |-> amt]

\* it.get(name), None for an item without the attribute
ItemGet(it, name) == IF name \in DOMAIN it THEN Dec(it[name]) ELSE PyNone

FundsResult(sufficient, message) == [is_sufficient |-> sufficient, message |-> message]

\* verify_sufficient_funds, given the answer of table.query(Key("pk").eq(
\* entity_number), Limit=1): items, the item under that key if there is one
\* (the table has no sort key), or the fault the query ended in.
verify_sufficient_funds(p, items, fault) ==
  LET entity_number == Strip(PyStrOf(p.entity_number))
      amount == FundsToDecimal(p.amount)
  IN  IF amount = [t |-> "raise"] THEN [raised |-> "InvalidOperation"]
      ELSE IF entity_number = "" THEN FundsResult(FALSE, "Missing entity_number.")
      ELSE IF amount = PyNone THEN FundsResult(FALSE, "Missing or invalid amount.")
      ELSE IF amount.n < 0 THEN FundsResult(FALSE, "Amount must be non-negative.")
      ELSE IF fault = "ClientError" THEN FundsResult(FALSE, "DynamoDB error: rate exceeded")
      ELSE IF fault = "Exception"
           THEN FundsResult(FALSE, "Unexpected error: connection to the endpoint failed")
      ELSE IF Len(items) = 0
           THEN FundsResult(FALSE, "No ledger entries found for this entity_number.")
      ELSE LET it == items[1]
               bal == IF ItemGet(it, "balance_after") # PyNone THEN ItemGet(it, "balance_after").n
                      ELSE IF ItemGet(it, "balance_before") # PyNone
                      THEN ItemGet(it, "balance_before").n
                      ELSE 0
           IN  IF bal >= amount.n THEN FundsResult(TRUE, "Sufficient funds.")
               ELSE FundsResult(FALSE, "Insufficient funds.")

\* A caller sends a valid request with an id not used before, or with the
\* account number as the ledger id.
InvokeFunds(c) ==
  \/ InvokeTimed(c)
  \/ InvokeWith(c, Payload(PyStr("1001"), PyNone, KindOf(c)[1], KindOf(c)[2], PyStr("1001")))

NextFunds == \E c \in Calls : InvokeFunds(c) \/ GetState(c) \/ Transact(c) \/ Return(c)

SpecFunds == Init /\ [][NextFunds]_vars

(***************************************************************************)
(* build_double_entry_json of jef-wallets-ledgers-get-all-by-account-      *)
(* number (list_transfers_by_account): the rows of the sender index gsi_1  *)
(* and of the receiver index gsi_2 for the account, the rows under the     *)
(* keys "<transaction_id>#credit" and "<transaction_id>#debit", and one    *)
(* reconciled entry per transaction_id.  The entries are given as the set  *)
(* they form; the order of the returned list is not represented.           *)
(***************************************************************************)
\* it.get(name) as a string: "" for an item without the attribute.
StrAttr(it, name) == IF name \in DOMAIN it THEN it[name] ELSE ""

\* gsi_1_pk of an item: account_number of a single entry, sender_account_number of a leg.
gsi_1_pk(it) ==
  IF it.kind = "ledger" THEN it.account_number
  ELSE IF it.kind = "double_entry" THEN it.sender_account_number
  ELSE ""

\* gsi_2_pk of an item: receiver_account_number of a leg; the other items have none.
gsi_2_pk(it) == IF it.kind = "double_entry" THEN it.receiver_account_number ELSE ""

ReceiverRowsDebitOnly(t, account_number) ==
  {k \in DOMAIN t : gsi_2_pk(t[k]) = account_number /\ t[k].type = "debit"}

\* _query_all(GSI_1_NAME, "gsi_1_pk", account_number) and
\* _query_all(GSI_2_NAME, "gsi_2_pk", account_number): every page of the query.
SenderRows(t, account_number) == {k \in DOMAIN t : gsi_1_pk(t[k]) = account_number}
ReceiverRows(t, account_number) == {k \in DOMAIN t : gsi_2_pk(t[k]) = account_number}

\* _batch_get_by_pk(want_pks): the items under "<txid>#credit" for the sender
\* rows and "<txid>#debit" for the receiver rows.
CounterpartRows(t, sender_rows, receiver_rows) ==
  {k \in DOMAIN t :
     \/ \E r \in sender_rows :
          StrAttr(t[r], "transaction_id") # "" /\ k = t[r].transaction_id \o "#credit"
     \/ \E r \in receiver_rows :
          StrAttr(t[r], "transaction_id") # "" /\ k = t[r].transaction_id \o "#debit"}

\* The row of a set that a query returns last: the one with the greatest sort key.
LastRow(t, rows) == CHOOSE k \in rows : \A o \in rows \ {k} : SortKeyLess(t[o], t[k])

\* by_tx[txid][typ] after the loop over all_rows = sender_rows + receiver_rows
\* + counterpart_rows: the last row of that list with the transaction_id and
\* type, "" if there is none.
ByTx(t, sender_rows, receiver_rows, counterpart_rows, txid, typ) ==
  LET match(rows) ==
        {k \in rows : StrAttr(t[k], "transaction_id") = txid /\ StrAttr(t[k], "type") = typ}
  IN  IF match(counterpart_rows) # {} THEN LastRow(t, match(counterpart_rows))
      ELSE IF match(receiver_rows) # {} THEN LastRow(t, match(receiver_rows))
      ELSE IF match(sender_rows) # {} THEN LastRow(t, match(sender_rows))
      ELSE ""

\* The reconciled entry of a transaction_id: ref = debit or credit, and a line
\* for each leg found.
TransferEntry(t, sender_rows, receiver_rows, counterpart_rows, txid) ==
  LET debit == ByTx(t, sender_rows, receiver_rows, counterpart_rows, txid, "debit")
      credit == ByTx(t, sender_rows, receiver_rows, counterpart_rows, txid, "credit")
      ref == IF debit # "" THEN debit ELSE credit
  IN  [transaction_id |-> txid,
       created |-> t[ref].created,
       amount |-> t[ref].amount,
       is_complete |-> debit # "" /\ credit # "",
       lines |-> (IF debit # ""
                  THEN <<[type |-> "debit", account_number |-> t[debit].sender_account_number,
                          amount |-> t[debit].amount]>>
                  ELSE <<>>)
                 \o (IF credit # ""
                     THEN <<[type |-> "credit",
                             account_number |-> t[credit].receiver_account_number,
                             amount |-> t[credit].amount]>>
                     ELSE <<>>)]

\* What the lines of an entry add to debit_total and credit_total (by type)
\* and to net_for_account (for the account): amount_dec of the entry for each
\* line of the type, with the sign of the account's side.
RECURSIVE LinesTotal(_, _, _, _)
LinesTotal(e, i, typ, account_number) ==
  IF i > Len(e.lines) THEN 0
  ELSE LinesTotal(e, i + 1, typ, account_number)
       + (IF typ # "net"
          THEN (IF e.lines[i].type = typ THEN e.amount ELSE 0)
          ELSE IF e.lines[i].account_number # account_number THEN 0
          ELSE IF e.lines[i].type = "debit" THEN 0 - e.amount
          ELSE e.amount)

RECURSIVE EntriesTotal(_, _, _)
EntriesTotal(entries, typ, account_number) ==
  IF entries = {} THEN 0
  ELSE LET e == CHOOSE x \in entries : TRUE
       IN  LinesTotal(e, 1, typ, account_number)
           + EntriesTotal(entries \ {e}, typ, account_number)

\* build_double_entry_json: the entries, one per transaction_id, and the summary.
build_double_entry_json(t, account) ==
  LET account_number == _as_str(account)
      sender_rows == SenderRows(t, account_number)
      receiver_rows == ReceiverRows(t, account_number)
      counterpart_rows == CounterpartRows(t, sender_rows, receiver_rows)
      all_rows == sender_rows \cup receiver_rows \cup counterpart_rows
      txids == {StrAttr(t[k], "transaction_id") :
                  k \in {r \in all_rows : /\ StrAttr(t[r], "transaction_id") # ""
                                          /\ StrAttr(t[r], "type") \in {"debit", "credit"}}}
      entries == {TransferEntry(t, sender_rows, receiver_rows, counterpart_rows, txid) :
                    txid \in txids}
  IN  IF account_number = ""
      THEN [exists |-> FALSE, message |-> "account_number is required", entries |-> {},
            summary |-> [count |-> 0, complete_count |-> 0, debit_total |-> 0,
                         credit_total |-> 0, net_for_account |-> 0]]
      ELSE [exists |-> entries # {},
            message |-> IF entries # {} THEN "ok" ELSE "no entries found",
            entries |-> entries,
            summary |-> [count |-> Cardinality(entries),
                         complete_count |-> Cardinality({e \in entries : e.is_complete}),
                         debit_total |-> EntriesTotal(entries, "debit", account_number),
                         credit_total |-> EntriesTotal(entries, "credit", account_number),
                         net_for_account |-> EntriesTotal(entries, "net", account_number)]]

\* The transfer a caller makes under the i-th transaction id: 100 from "1001"
\* to "2001", 50 from "1001" to itself, 30 from "2001" to "1001", and so on in turn.
SummaryTransfer(i) ==
  LET a == PyStr("1001")
      b == PyStr("2001")
      tid == PyStr(TransactionId(i))
      by == PyStr("00001")
  IN  IF i % 3 = 1 THEN TransferPayload(a, a, b, tid, PyInt(100), by)
      ELSE IF i % 3 = 2 THEN TransferPayload(a, a, a, tid, PyInt(50), by)
      ELSE TransferPayload(b, b, a, tid, PyInt(30), by)

\* A caller sends one of these transfers.
SummaryInvoke(c) == \E i \in 1..NumTransactionIds : TransferInvokeWith(c, SummaryTransfer(i))

\* Transfers between two accounts and within one, made by two callers of create_double_entry.
NextSummary ==
  \E c \in Calls : SummaryInvoke(c) \/ TransactionExists(c) \/ TransferTransact(c) \/ Return(c)

SpecSummary == Init /\ [][NextSummary]_vars

\* The two writers side by side, each sending valid requests: single entries
\* of account "1001" and transfers from "1001" to "2001".
NextListing ==
  \/ InvokeTimed("w1") \/ GetState("w1") \/ Transact("w1")
  \/ TransferInvoke("w2") \/ TransactionExists("w2") \/ TransferTransact("w2")
  \/ \E c \in Calls : Return(c)

SpecListing == Init /\ [][NextListing]_vars

\* What a caller gives as created_by: a user id, blanks, None; or it leaves the key out.
CreatedByValues == {PyStr("00001"), PyStr(" "), PyNone}

\* A caller sends a request that is valid but for its created_by, with an id
\* not used before, or a request without account_number or without ledger_id.
InvokeCreatedBy(c) ==
  \/ /\ next_id < NumValidationIds
     /\ \E q \in {Payload(PyStr("1001"), PyNone, KindOf(c)[1], KindOf(c)[2],
                          PyStr(LedgerId(next_id + 1)))} :
          \E by \in CreatedByValues : InvokeWith(c, [created_by |-> by] @@ q) \/ InvokeWith(c, q)
  \/ \E q \in {x \in InvalidPayloads : x.account_number = PyNone \/ x.ledger_id = PyNone} :
       InvokeWith(c, q)

NextCreatedBy ==
  \E c \in Calls : InvokeCreatedBy(c) \/ GetState(c) \/ Transact(c) \/ Return(c)

SpecCreatedBy == Init /\ [][NextCreatedBy]_vars

(***************************************************************************)
(* Several calls of create_one_ledger made at the same time on one         *)
(* account, each with a fresh ledger id of its own, and no call after      *)
(* them: as many as a call has attempts, or one more.                      *)
(***************************************************************************)
Writer(i) == "w" \o ToString(i)
Writers == {Writer(i) : i \in 1..(max_attempts + 1)}

\* The calls Writer(1) .. Writer(n) have passed validation and stand before
\* their first read of the state; the other slots stay idle.
InitConcurrent ==
  /\ table = <<>>
  /\ commits = <<>>
  /\ \E n \in {max_attempts, max_attempts + 1} :
       /\ payload = [c \in Writers |->
            IF \E i \in 1..n : c = Writer(i)
            THEN Payload(PyStr("1001"), PyNone, KindOf(c)[1], KindOf(c)[2],
                         PyStr(LedgerId(CHOOSE i \in 1..n : c = Writer(i))))
            ELSE NoPayload]
       /\ pc = [c \in Writers |-> IF \E i \in 1..n : c = Writer(i) THEN "get_state" ELSE "idle"]
       /\ attempt = [c \in Writers |-> IF \E i \in 1..n : c = Writer(i) THEN 1 ELSE 0]
       /\ next_id = n
  /\ fields = [c \in Writers |-> Normalise(payload[c])]
  /\ state_exists = [c \in Writers |-> FALSE]
  /\ latest_balance = [c \in Writers |-> 0]
  /\ version = [c \in Writers |-> 0]
  /\ result = [c \in Writers |-> NoResult]
  /\ now = 0
  /\ created_iso = [c \in Writers |-> 0]
  /\ records = [c \in Writers |-> <<>>]
  /\ idx = [c \in Writers |-> 0]
  /\ failures = [c \in Writers |-> <<>>]
  /\ results = [c \in Writers |-> <<>>]

\* The transaction of a call.  The calls Writer(2), Writer(3), ... send the
\* same debit and differ in their ledger ids only, so they are
\* interchangeable: of them, the one that ends first (with its entry committed
\* or its attempts used up) is taken to be Writer(2), the next Writer(3), and so on.
TransactInTurn(c) ==
  /\ Transact(c)
  /\ pc'[c] = "done" =>
       \A i, j \in 2..(max_attempts + 1) : (c = Writer(i) /\ j < i) => pc[Writer(j)] = "done"

NextConcurrent == \E c \in Writers : GetState(c) \/ TransactInTurn(c)

SpecConcurrent == InitConcurrent /\ [][NextConcurrent]_vars

\* The lambda is invoked with one record: a valid credit with a ledger id not used before.
DeliverFresh(c) ==
  /\ pc[c] = "idle"
  /\ next_id < NumClockIds
  /\ records' = [records EXCEPT ![c] =
       Records(<<Body(PyStr("1001"), PyStr("1001"), PyStr("Credit"), Dec(100),
                      PyStr(LedgerId(next_id + 1)), PyStr("00001"))>>)]
  /\ next_id' = next_id + 1
  /\ idx' = [idx EXCEPT ![c] = 1]
  /\ pc' = [pc EXCEPT ![c] = "record"]
  /\ UNCHANGED <<table, payload, fields, attempt, state_exists, latest_balance, version, result,
                 commits, now, created_iso, failures, results>>

\* The ledger consumer (the writer of lambda_function.py, whose read of the
\* state may be behind) and a direct caller of create_one_ledger of
\* code/code.py, on the one table both write to.
NextStale ==
  \/ DeliverFresh("w1") \/ HandleRecord("w1") \/ GetStateB("w1") \/ TransactB("w1")
  \/ Classify("w1") \/ HandlerReturn("w1") \/ EndInvocation("w1")
  \/ InvokeTimed("w2") \/ GetState("w2") \/ Transact("w2") \/ Return("w2")

SpecStale == Init /\ [][NextStale]_vars

(***************************************************************************)
(* The transactions SQS consumer,                                          *)
(* jef-wallets-transactions-create-one/build/lambda_function.py:           *)
(* _validate_payload, create_transaction with its conditional put_item on  *)
(* pk = transaction_id, and the handler that raises at the first record    *)
(* that was not created.  In the specification of this consumer the        *)
(* variable table is the jef-wallets-transactions table; created is the    *)
(* clock's reading.                                                        *)
(***************************************************************************)
HexChars == "0123456789abcdefABCDEF"
IsHex(ch) == \E i \in 1..Len(HexChars) : SubSeq(HexChars, i, i) = ch

RECURSIVE WithoutHyphens(_)
WithoutHyphens(s) ==
  IF Len(s) = 0 THEN s
  ELSE IF SubSeq(s, 1, 1) = "-" THEN WithoutHyphens(SubSeq(s, 2, Len(s)))
  ELSE SubSeq(s, 1, 1) \o WithoutHyphens(SubSeq(s, 2, Len(s)))

RECURSIVE AllHex(_)
AllHex(s) == IF Len(s) = 0 THEN TRUE ELSE IsHex(SubSeq(s, 1, 1)) /\ AllHex(SubSeq(s, 2, Len(s)))

\* uuid.UUID(tid) does not raise: 32 hexadecimal digits once the hyphens are taken out.
IsUuid(s) == Len(WithoutHyphens(s)) = 32 /\ AllHex(WithoutHyphens(s))

\* The transaction ids the producers draw with uuid4.
TransactionUuid(i) == "6f1c2a9e-0b7d-4c3a-9e51-00000000000" \o ToString(i)

\* _to_dec: Decimal(v) for a Decimal, an int (a bool is one) and a str, 0 for
\* an empty str and for any other type; Decimal(s) raises for a str that is
\* no number.
_to_dec(v) ==
  CASE v.t = "dec" -> v
    [] v.t = "int" -> Dec(v.n)
    [] v.t = "bool" -> Dec(IF v.b THEN 1 ELSE 0)
    [] v.t = "float" -> DecNaN
    [] v.t = "str" -> IF Len(Strip(v.s)) = 0 THEN Dec(0)
                      ELSE IF DecimalOfString(Strip(v.s)) = PyNone THEN [t |-> "raise"]
                      ELSE DecimalOfString(Strip(v.s))
    [] OTHER -> Dec(0)

required ==
  <<"account_number", "sender_account_number", "sender_account_name",
    "receiver_account_number", "receiver_account_name", "description", "amount",
    "transaction_id", "created_by">>

\* "for k in required": the message of the first field that is missing or empty, "ok" if none is.
RECURSIVE RequiredFrom(_, _)
RequiredFrom(p, i) ==
  IF i > Len(required) THEN "ok"
  ELSE IF required[i] \notin DOMAIN p THEN "missing field: " \o required[i]
  ELSE IF required[i] # "amount" /\ _as_str(p[required[i]]) = ""
       THEN "empty field: " \o required[i]
  ELSE RequiredFrom(p, i + 1)

\* _validate_payload: the message it returns, "ok" for a payload that passes,
\* "raise" when _to_dec or the comparison of a NaN with 0 raises.
_validate_payload(p) ==
  IF RequiredFrom(p, 1) # "ok" THEN RequiredFrom(p, 1)
  ELSE IF _to_dec(p.amount).t = "raise" \/ "nan" \in DOMAIN _to_dec(p.amount) THEN "raise"
  ELSE IF _to_dec(p.amount).n <= 0 THEN "amount must be > 0"
  ELSE IF ~IsUuid(_as_str(p.transaction_id)) THEN "transaction_id must be uuidv4 format"
  ELSE "ok"

\* item of create_transaction
TransactionItem(p, created) ==
  [kind |-> "transaction", transaction_id |-> _as_str(p.transaction_id),
   account_number |-> _as_str(p.account_number),
   sender_account_number |-> _as_str(p.sender_account_number),
   receiver_account_number |-> _as_str(p.receiver_account_number),
   amount |-> _to_dec(p.amount).n, created_by |-> _as_str(p.created_by),
   type |-> IF _as_str(p.account_number) = _as_str(p.sender_account_number)
            THEN "sender" ELSE "receiver",
   created |-> created]

\* create_transaction: the table after it and what it returns, or that it
\* raises.  fault is what put_item ends in besides its answer.
create_transaction(t, p, created, fault) ==
  LET pk == _as_str(p.transaction_id)
  IN  IF _validate_payload(p) = "raise" THEN [raises |-> TRUE, table |-> t, res |-> NoResult]
      ELSE IF _validate_payload(p) # "ok"
           THEN [raises |-> FALSE, table |-> t, res |-> Result(FALSE, _validate_payload(p))]
      ELSE IF fault = "ClientError"
           THEN [raises |-> FALSE, table |-> t,
                 res |-> Result(FALSE, "dynamodb error: ProvisionedThroughputExceededException")]
      ELSE IF fault = "Exception"
           THEN [raises |-> FALSE, table |-> t, res |-> Result(FALSE, "error: connection lost")]
      ELSE IF ~AttributeNotExists(t, pk)
           THEN [raises |-> FALSE, table |-> t,
                 res |-> Result(FALSE, "transaction_id already exists")]
      ELSE [raises |-> FALSE, table |-> (pk :> TransactionItem(p, created)) @@ t,
            res |-> Result(TRUE, "created")]

\* The body of a message on the transactions queue, parsed.
TransactionBody(tid, amt) ==
  [account_number |-> PyStr("1001"), sender_account_number |-> PyStr("1001"),
   sender_account_name |-> PyStr("JEF Main"), receiver_account_number |-> PyStr("2001"),
   receiver_account_name |-> PyStr("Supplier A"), description |-> PyStr("Payment for feed"),
   amount |-> amt, transaction_id |-> tid, created_by |-> PyStr("00001")]

\* The bodies on the transactions queue: a transfer of 100 under one of the
\* first transaction ids, a body without created_by, one with amount 0, one
\* whose amount is no number, one whose transaction_id is no uuid, and a body
\* that is no JSON.
TransactionBodies ==
  LET t1 == PyStr(TransactionUuid(1))
      whole == TransactionBody(t1, PyInt(100))
  IN  {TransactionBody(PyStr(TransactionUuid(i)), PyInt(100)) : i \in 1..NumTransactionIds}
      \cup {[k \in DOMAIN whole \ {"created_by"} |-> whole[k]],
            TransactionBody(t1, PyInt(0)),
            TransactionBody(t1, PyStr("abc")),
            TransactionBody(PyStr("t1"), PyInt(100)),
            PyNone}

\* lambda_handler is invoked with a batch of records.
TransactionDeliver(c) ==
  /\ pc[c] = "idle"
  /\ \E b \in Batches(TransactionBodies) : records' = [records EXCEPT ![c] = b]
  /\ idx' = [idx EXCEPT ![c] = 1]
  /\ pc' = [pc EXCEPT ![c] = "record"]
  /\ UNCHANGED <<table, payload, fields, attempt, state_exists, latest_balance, version, result,
                 next_id, commits, now, created_iso, failures, results>>

\* "for r in records": json.loads and create_transaction; the result is
\* appended unless one of the two raised; the handler raises when one of them
\* raised or the result is not is_created.
TransactionRecord(c) ==
  /\ pc[c] = "record"
  /\ idx[c] <= Len(records[c])
  /\ \E fault \in StoreFaults :
       LET r == records[c][idx[c]]
           out == IF IsDict(r.body) THEN create_transaction(table, r.body, now, fault)
                  ELSE [raises |-> TRUE, table |-> table, res |-> NoResult]
       IN  /\ table' = out.table
           /\ results' = [results EXCEPT ![c] =
                IF out.raises THEN @
                ELSE Append(@, [messageId |-> r.messageId, ok |-> out.res.is_created,
                                result |-> out.res])]
           /\ IF ~out.raises /\ out.res.is_created
              THEN /\ idx' = [idx EXCEPT ![c] = idx[c] + 1]
                   /\ pc' = pc
              ELSE /\ idx' = idx
                   /\ pc' = [pc EXCEPT ![c] = "raised"]
  /\ UNCHANGED <<payload, fields, attempt, state_exists, latest_balance, version, result,
                 next_id, commits, now, created_iso, records, failures>>

\* The loop is over: the handler returns {"ok": True, "processed": len(records), ...}.
TransactionHandlerReturn(c) ==
  /\ pc[c] = "record"
  /\ idx[c] > Len(records[c])
  /\ pc' = [pc EXCEPT ![c] = "returned"]
  /\ UNCHANGED <<table, payload, fields, attempt, state_exists, latest_balance, version, result,
                 next_id, commits, now, created_iso, consumer_vars>>

\* The invocation has ended in the exception: the queue keeps the whole batch.
TransactionRaised(c) ==
  /\ pc[c] = "raised"
  /\ pc' = [pc EXCEPT ![c] = "idle"]
  /\ records' = [records EXCEPT ![c] = <<>>]
  /\ idx' = [idx EXCEPT ![c] = 0]
  /\ failures' = [failures EXCEPT ![c] = <<>>]
  /\ results' = [results EXCEPT ![c] = <<>>]
  /\ UNCHANGED <<table, payload, fields, attempt, state_exists, latest_balance, version, result,
                 next_id, commits, now, created_iso>>

NextTransactionConsumer ==
  \E c \in Consumers :
    \/ TransactionDeliver(c) \/ TransactionRecord(c) \/ TransactionHandlerReturn(c)
    \/ TransactionRaised(c) \/ EndInvocation(c)

SpecTransactionConsumer == Init /\ [][NextTransactionConsumer]_vars

(***************************************************************************)
(* The ledger HTTP producer,                                               *)
(* sqs-ledgers/jef-wallets-ledgers-sqs-create-one/lambda_function.py:      *)
(* the message it builds from the request, its two checks, json.dumps with *)
(* Decimals written as floats, and sqs.send_message; the queue then hands  *)
(* the message to the ledger consumer, which parses the body with          *)
(* parse_float=Decimal.  A message that has been sent and not yet been     *)
(* delivered is held in the producer's payload, at "enqueued".             *)
(***************************************************************************)
\* _to_number: Decimal(str(v)) for an int, a float and a Decimal, which
\* raises for a bool (Decimal("True")); Decimal(s) or None for a str.
_to_number(v) ==
  CASE v.t = "dec" -> v
    [] v.t = "int" -> Dec(v.n)
    [] v.t = "bool" -> [t |-> "raise"]
    [] v.t = "float" -> DecNaN
    [] v.t = "str" -> IF Len(Strip(v.s)) = 0 THEN PyNone ELSE DecimalOfString(Strip(v.s))
    [] OTHER -> PyNone

\* msg of the producer's lambda_handler
ProducerMessage(p) ==
  [k \in {MessageKeys[i] : i \in 1..Len(MessageKeys)} |->
     IF k = "amount" THEN _to_number(PayloadGet(p, k)) ELSE PyStr(_as_str(PayloadGet(p, k)))]

\* missing = [k for k, v in msg.items() if v in (None, "")]
RECURSIVE ProducerMissing(_, _)
ProducerMissing(msg, keys) ==
  IF Len(keys) = 0 THEN <<>>
  ELSE (IF msg[Head(keys)] \in {PyNone, PyStr("")} THEN <<Head(keys)>> ELSE <<>>)
       \o ProducerMissing(msg, Tail(keys))

\* json.dumps of a float: repr of the float, "NaN" for a NaN.
JsonFloat(d) == IF "nan" \in DOMAIN d THEN "NaN" ELSE ToString(d.n) \o ".0"

\* default=_jsonable: a Decimal is written as float(v)
_jsonable(msg) == [k \in DOMAIN msg |-> IF k = "amount" THEN JsonFloat(msg[k]) ELSE msg[k]]

\* json.loads(record_body, parse_float=Decimal, parse_int=Decimal) of the
\* consumer: Decimal(text) for a number, the float NaN for the constant NaN.
JsonNumber(s) ==
  IF s = "NaN" THEN PyNaN
  ELSE IF Len(s) > 2 /\ SubSeq(s, Len(s) - 1, Len(s)) = ".0"
       THEN DecimalOfString(SubSeq(s, 1, Len(s) - 2))
  ELSE DecimalOfString(s)

\* _parse_body of the consumer
_parse_body(body) == [k \in DOMAIN body |-> IF k = "amount" THEN JsonNumber(body[k]) ELSE body[k]]

\* The producer's response body
Sent(is_sent, message) == [is_sent |-> is_sent, message |-> message]

\* The requests made of the producer for a ledger id: a complete one, and
\* ones whose amount, type or created_by is off.
ProducerRequests(lid) ==
  LET a == PyStr("1001")
      by == PyStr("00001")
  IN  {Body(a, a, PyStr("credit"), amt, PyStr(lid), by) :
         amt \in {PyInt(100), PyStr(" 50 "), PyInt(0), PyInt(0 - 5), PyStr("abc"), PyNone,
                  PyBool(TRUE), PyNaN}}
      \cup {Body(a, a, ty, PyInt(100), PyStr(lid), by) : ty \in {PyStr("Credit"), PyStr("refund")}}
      \cup {[k \in DOMAIN Body(a, a, a, a, a, a) \ {"created_by"} |->
               Body(a, a, PyStr("debit"), PyInt(100), PyStr(lid), by)[k]]}

\* The producer's lambda_handler up to send_message.  Decimal("True") raises
\* out of the handler: the client gets no is_sent.
ProducerInvoke(c) ==
  /\ pc[c] = "idle"
  /\ next_id < NumQueuedIds
  /\ \E p \in ProducerRequests(LedgerId(next_id + 1)) :
       LET msg == ProducerMessage(p)
           missing == ProducerMissing(msg, MessageKeys)
           refuse(message) ==
             /\ pc' = [pc EXCEPT ![c] = "done"]
             /\ result' = [result EXCEPT ![c] = Sent(FALSE, message)]
             /\ payload' = payload
       IN  IF msg.amount = [t |-> "raise"] THEN refuse("InvalidOperation")
           ELSE IF Len(missing) > 0 THEN refuse("Missing/invalid fields: " \o Join(missing))
           ELSE IF msg.type.s \notin {"credit", "debit"}
                THEN refuse("Invalid type. Must be 'credit' or 'debit'.")
           ELSE /\ pc' = [pc EXCEPT ![c] = "send"]
                /\ payload' = [payload EXCEPT ![c] = _jsonable(msg)]
                /\ result' = result
  /\ next_id' = next_id + 1
  /\ UNCHANGED <<table, fields, attempt, state_exists, latest_balance, version, commits, now,
                 created_iso, consumer_vars>>

\* sqs.send_message and the response: 200 with is_sent True, or 500.
ProducerSend(c) ==
  /\ pc[c] = "send"
  /\ \E fault \in StoreFaults :
       IF fault = "none"
       THEN /\ pc' = [pc EXCEPT ![c] = "enqueued"]
            /\ result' = [result EXCEPT ![c] = Sent(TRUE, "Sent. MessageId=" \o MessageId(1))]
       ELSE /\ pc' = [pc EXCEPT ![c] = "done"]
            /\ result' = [result EXCEPT ![c] =
                 Sent(FALSE, IF fault = "ClientError" THEN "AWS error: throttled"
                             ELSE "Error: connection lost")]
  /\ UNCHANGED <<table, payload, fields, attempt, state_exists, latest_balance, version, next_id,
                 commits, now, created_iso, consumer_vars>>

\* The queue invokes the consumer c with the message producer s has sent.
QueueDeliver(s, c) ==
  /\ pc[s] = "enqueued"
  /\ pc[c] = "idle"
  /\ records' = [records EXCEPT ![c] = Records(<<_parse_body(payload[s])>>)]
  /\ idx' = [idx EXCEPT ![c] = 1]
  /\ pc' = [pc EXCEPT ![c] = "record", ![s] = "idle"]
  /\ payload' = [payload EXCEPT ![s] = NoPayload]
  /\ result' = [result EXCEPT ![s] = NoResult]
  /\ UNCHANGED <<table, fields, attempt, state_exists, latest_balance, version, next_id, commits,
                 now, created_iso, failures, results>>

\* The producer behind the HTTP API and the ledger consumer behind the queue.
NextProducer ==
  \/ ProducerInvoke("w2") \/ ProducerSend("w2") \/ Return("w2") \/ QueueDeliver("w2", "w1")
  \/ HandleRecord("w1") \/ GetStateB("w1") \/ TransactB("w1") \/ Classify("w1")
  \/ HandlerReturn("w1") \/ EndInvocation("w1")

SpecProducer == Init /\ [][NextProducer]_vars

(***************************************************************************)
(* The reader of an account's entries,                                     *)
(* jef-wallets-ledgers-get-all-by-account-number/lambda_function.py:       *)
(* _query_all over the pages of an index, and list_ledgers_by_account,     *)
(* which merges the rows of gsi_1 and gsi_2 by ledger_id and sorts them.   *)
(* The index reads are up to date.                                         *)
(***************************************************************************)
\* The rows of a set in the order of their sort key, least first.
RECURSIVE Ascending(_, _)
Ascending(t, rows) ==
  IF rows = {} THEN <<>>
  ELSE LET first == CHOOSE k \in rows : \A o \in rows \ {k} : SortKeyLess(t[k], t[o])
       IN  <<first>> \o Ascending(t, rows \ {first})

\* table.query: the rows of the index partition after ExclusiveStartKey, at
\* most PageSize of them, and LastEvaluatedKey when the page is full.
Query(t, rows, exclusive_start_key) ==
  LET rest == Ascending(t, IF exclusive_start_key = "" THEN rows
                           ELSE {k \in rows : SortKeyLess(t[exclusive_start_key], t[k])})
      items == SubSeq(rest, 1, Min(PageSize, Len(rest)))
  IN  [Items |-> items,
       LastEvaluatedKey |-> IF Len(items) = PageSize THEN items[Len(items)] ELSE ""]

\* "while True" of _query_all from a cursor on
RECURSIVE QueryFrom(_, _, _)
QueryFrom(t, rows, last_evaluated_key) ==
  LET resp == Query(t, rows, last_evaluated_key)
  IN  resp.Items \o (IF resp.LastEvaluatedKey = "" THEN <<>>
                     ELSE QueryFrom(t, rows, resp.LastEvaluatedKey))

_query_all(t, rows) == QueryFrom(t, rows, "")

\* "for it in out_items + in_items": a row whose ledger_id was seen is left out.
RECURSIVE Merge(_, _, _)
Merge(t, items, seen) ==
  IF Len(items) = 0 THEN <<>>
  ELSE LET lid == StrAttr(t[Head(items)], "ledger_id")
       IN  IF lid = "" \/ lid \in seen THEN Merge(t, Tail(items), seen)
           ELSE <<Head(items)>> \o Merge(t, Tail(items), seen \cup {lid})

\* merged.sort(key=(created, ledger_id), reverse=True), a stable sort
RECURSIVE SortedInto(_, _, _)
SortedInto(t, sorted, k) ==
  IF Len(sorted) = 0 THEN <<k>>
  ELSE IF SortKeyLess(t[Head(sorted)], t[k]) THEN <<k>> \o sorted
  ELSE <<Head(sorted)>> \o SortedInto(t, Tail(sorted), k)

RECURSIVE SortDescending(_, _)
SortDescending(t, items) ==
  IF Len(items) = 0 THEN <<>>
  ELSE SortedInto(t, SortDescending(t, SubSeq(items, 1, Len(items) - 1)), items[Len(items)])

\* list_ledgers_by_account: the keys of the returned ledgers, in their order.
list_ledgers_by_account(t, account) ==
  LET account_number == _as_str(account)
      out_items == _query_all(t, SenderRows(t, account_number))
      in_items == _query_all(t, ReceiverRows(t, account_number))
      merged == SortDescending(t, Merge(t, out_items \o in_items, {}))
  IN  IF account_number = ""
      THEN [exists |-> FALSE, message |-> "Missing account_number", ledgers |-> <<>>]
      ELSE IF Len(merged) = 0
      THEN [exists |-> FALSE, message |-> "No ledgers found", ledgers |-> <<>>]
      ELSE [exists |-> TRUE, message |-> "OK", ledgers |-> merged]

\* A caller of create_one_ledger records a credit of 100 that account "1001"
\* sends to "2001", under a ledger id not used before.
InvokeWithReceiver(c) ==
  /\ next_id < NumValidationIds
  /\ InvokeWith(c, [receiver_account_number |-> PyStr("2001")]
                     @@ Payload(PyStr("1001"), PyStr("1001"), PyStr("credit"), PyInt(100),
                                PyStr(LedgerId(next_id + 1))))

\* Single entries and transfers written while time passes.
NextEntries ==
  \/ InvokeWithReceiver("w1") \/ GetState("w1") \/ Transact("w1")
  \/ SummaryInvoke("w2") \/ TransactionExists("w2") \/ TransferTransact("w2")
  \/ \E c \in Calls : Return(c)
  \/ Tick

SpecEntries == Init /\ [][NextEntries]_vars

(***************************************************************************)
(* What the claims speak about.                                            *)
(***************************************************************************)
LedgerKeys == {k \in DOMAIN table : table[k].kind = "ledger"}
EntriesOf(a) == {k \in LedgerKeys : table[k].account_number = a}
HasState(a) == _state_pk(a) \in DOMAIN table
StateVersion(a) == IF HasState(a) THEN table[_state_pk(a)].version ELSE 0
StateBalance(a) == IF HasState(a) THEN table[_state_pk(a)].latest_balance ELSE 0
SignedAmount(item) == IF item.type = "credit" THEN item.amount ELSE 0 - item.amount

RECURSIVE SumSigned(_)
SumSigned(keys) ==
  IF keys = {} THEN 0
  ELSE LET k == CHOOSE x \in keys : TRUE IN SignedAmount(table[k]) + SumSigned(keys \ {k})

\* The commits of an account: <<ledger_id, i>> for the i-th transaction that put ledger_id.
CommitsOfAccount(a) ==
  {<<l, i>> \in (DOMAIN commits) \X (1..(NumLedgerIds + 1)) :
     /\ i <= Len(commits[l])
     /\ table[l].account_number = a}
VersionOf(x) == commits[x[1]][x[2]]

\* The call c is about to run a transaction for a ledger id that is already in the table.
IsRepeat(c) == pc[c] = "transact" /\ fields[c].ledger_id \in DOMAIN table

TypeOK == \A c \in Calls : attempt[c] \in 0..max_attempts

\* C1: a ledger id is put by at most one transaction, and the transaction of a
\* call whose ledger id is already in the table changes nothing in the table
\* (so neither latest_balance nor version), whatever the other calls do.
C1_AtMostOnce ==
  /\ [](\A l \in DOMAIN commits : Len(commits[l]) = 1 /\ l \in LedgerKeys)
  /\ [](\A l \in LedgerKeys : l \in DOMAIN commits)
  /\ [][\A c \in Calls : (IsRepeat(c) /\ pc'[c] # "transact") => table' = table]_vars

\* A repeated request has run all its attempts and the table still holds one entry for it.
C1_Witness ==
  \E c \in Calls :
    /\ pc[c] = "done" /\ Validate(fields[c]) = "OK" /\ ~result[c].is_created
    /\ fields[c].ledger_id \in LedgerKeys
    /\ Len(commits[fields[c].ledger_id]) = 1

\* C3: the versions written by the commits of an account are exactly 1..N for
\* its N commits: no gap, no repeat.
C3_VersionsGapFree ==
  \A a \in Accounts :
    {VersionOf(x) : x \in CommitsOfAccount(a)} = 1..Cardinality(CommitsOfAccount(a))

\* Two commits on one account, the second by a call that had to retry.
C3_Witness ==
  \E a \in Accounts : \E c \in Calls :
    /\ Cardinality(CommitsOfAccount(a)) = 2
    /\ pc[c] = "done" /\ result[c].is_created /\ attempt[c] >= 2
    /\ fields[c].account_number = a

\* C4: the entry committed at version k+1 starts from the balance the entry
\* committed at version k ended with, the entry of version 1 starts from 0, and
\* an entry that no entry continues is the one latest_balance was taken from:
\* no committed balance is lost.
C4_NoLostUpdate ==
  \A a \in Accounts : \A x \in CommitsOfAccount(a) :
    /\ VersionOf(x) = 1 => table[x[1]].balance_before = 0
    /\ \A y \in CommitsOfAccount(a) :
         VersionOf(y) = VersionOf(x) + 1
           => table[y[1]].balance_before = table[x[1]].balance_after
    /\ (\A y \in CommitsOfAccount(a) : VersionOf(y) # VersionOf(x) + 1)
         => table[x[1]].balance_after = StateBalance(a)

\* An entry of version 2 that continues a non-zero balance, while another call is
\* between its read and its transaction.
C4_Witness ==
  \E a \in Accounts : \E x, y \in CommitsOfAccount(a) :
    /\ VersionOf(x) = 1 /\ VersionOf(y) = 2
    /\ table[y[1]].balance_before # 0
    /\ \E c \in Calls : pc[c] = "transact" /\ version[c] < StateVersion(a)

\* C5: latest_balance of an account is the sum, from zero, of the signed
\* amounts of the account's entries.
C5_BalanceIsSum == \A a \in Accounts : StateBalance(a) = SumSigned(EntriesOf(a))

\* A credit and a debit are committed and the balance is their difference.
C5_Witness ==
  \E a \in Accounts :
    /\ \E k \in EntriesOf(a) : table[k].type = "credit"
    /\ \E k \in EntriesOf(a) : table[k].type = "debit"
    /\ StateBalance(a) = 100 - 50

\* C7: the version of an account is the number of its ledger entries: no entry
\* without its state update, no state update without its entry.
C7_AllOrNothing ==
  \A a \in Accounts :
    /\ StateVersion(a) = Cardinality(EntriesOf(a))
    /\ HasState(a) <=> EntriesOf(a) # {}

\* A transaction was cancelled (the call is on a later attempt) and the version
\* still counts the entries.
C7_Witness ==
  \E a \in Accounts : \E c \in Calls :
    /\ StateVersion(a) >= 1
    /\ pc[c] = "get_state" /\ attempt[c] >= 2 /\ fields[c].account_number = a

\* The entry with the ledger id of call c is in the table.
Committed(c) == fields[c].ledger_id \in LedgerKeys
SameAmountAndType(c) ==
  /\ table[fields[c].ledger_id].amount = fields[c].amount.n
  /\ table[fields[c].ledger_id].type = fields[c].typ

\* C2: a call that repeats a committed ledger id with the same amount and type
\* returns is_created true; stated of every finished call, the one that
\* created the entry included.
C2_ReplayReturnsSuccess ==
  \A c \in Calls :
    (pc[c] = "done" /\ Validate(fields[c]) = "OK" /\ Committed(c) /\ SameAmountAndType(c))
      => result[c].is_created

Cancelled(c) ==
  /\ pc[c] = "transact"
  /\ pc'[c] # "transact"
  /\ ~(pc'[c] = "done" /\ result'[c].is_created)

\* C8: a call makes at most 5 attempts; a cancelled transaction before the
\* fifth attempt leads back to the read of the state, with the next attempt;
\* the fifth one ends the call with a failure and nothing written; a started
\* call ends with a result.
C8_BoundedRetry ==
  /\ [](\A c \in Calls : attempt[c] <= 5)
  /\ [][\A c \in Calls :
          Cancelled(c) =>
            /\ table' = table
            /\ IF attempt[c] < 5
               THEN pc'[c] = "get_state" /\ attempt'[c] = attempt[c] + 1
               ELSE /\ pc'[c] = "done"
                    /\ result'[c] = Result(FALSE, "Transaction failed")
                    /\ fields[c].ledger_id \notin DOMAIN table']_vars
  /\ \A c \in Calls : (pc[c] = "get_state") ~> (pc[c] = "done")

\* A call has failed after five version conflicts: its ledger id was never in the table.
C8_Witness ==
  \E c \in Calls :
    /\ pc[c] = "done" /\ result[c] = Result(FALSE, "Transaction failed")
    /\ attempt[c] = 5
    /\ fields[c].ledger_id \notin DOMAIN table

\* The requests the claim C9 names, as the caller wrote them.
NonNumericAmounts == {PyNone, PyBool(TRUE), PyStr("abc"), PyStr("")}
NonPositiveAmounts == {PyInt(0), PyInt(0 - 5), PyStr("-5"), PyStr("0")}
MissingAccounts == {PyNone, PyStr("")}
BadTypes == {PyNone, PyStr("refund"), PyStr("")}
InvalidRequest(q) ==
  \/ q.amount \in NonNumericAmounts \cup NonPositiveAmounts
  \/ q.account_number \in MissingAccounts
  \/ q.type \in BadTypes
ValidationMessages ==
  {"account_number is required", "type must be 'credit' or 'debit'",
   "amount must be a positive number"}

C10_DuplicateNotRetried ==
  [][\A c \in Calls :
       (Cancelled(c) /\ Committed(c) /\ ~SameAmountAndType(c))
         => /\ pc'[c] = "done"
            /\ ~result'[c].is_created
            /\ result'[c].message # "Transaction failed"
            /\ table' = table]_vars

\* The items of an account: its STATE item and its ledger entries.
ItemsOf(t, a) ==
  {k \in DOMAIN t : t[k].account_number = a}

TransactionIds == {TransactionId(i) : i \in 1..NumTransactionIds}
DoubleEntryKeys == {k \in DOMAIN table : table[k].kind = "double_entry"}

\* C12: each transaction_id has no ledger entry or exactly two, a debit and a
\* credit of the same amount, also after concurrent or repeated calls with
\* the same transaction_id.
C12_ZeroOrTwoLegs ==
  \A tid \in TransactionIds :
    \/ LegsOf(table, tid) = {}
    \/ /\ Cardinality(LegsOf(table, tid)) = 2
       /\ \E d, k \in LegsOf(table, tid) :
            /\ table[d].type = "debit" /\ table[k].type = "credit"
            /\ table[d].amount = table[k].amount

\* C13: a transfer call made after a call with the same transaction_id has
\* committed ends its lookup with the duplicate-transaction result, and no
\* step of it adds a record.
C13_DuplicateRejected ==
  [][\A c \in Calls :
       (pc[c] = "exists" /\ pc'[c] # "exists" /\ LegsOf(table, fields[c].transaction_id) # {})
         => /\ pc'[c] = "done"
            /\ result'[c] = Result(FALSE, "Transaction already exists (transaction_id)")
            /\ table' = table]_vars

\* C14: the two legs of a transfer are put together or not at all: a step adds
\* to the table nothing, or exactly a debit and a credit of one transaction_id
\* and one amount, and it changes and removes nothing; so every leg in the
\* table has its other leg next to it, also after a cancelled or failed commit.
C14_LegsTogether ==
  /\ [][\/ table' = table
        \/ /\ DOMAIN table \subseteq DOMAIN table'
           /\ \A k \in DOMAIN table : table'[k] = table[k]
           /\ \E d, k \in DOMAIN table' \ DOMAIN table :
                /\ DOMAIN table' \ DOMAIN table = {d, k}
                /\ table'[d].type = "debit" /\ table'[k].type = "credit"
                /\ table'[d].transaction_id = table'[k].transaction_id
                /\ table'[d].amount = table'[k].amount
                /\ table'[d].created = table'[k].created]_vars
  /\ [](\A d \in DoubleEntryKeys : \E k \in DoubleEntryKeys :
          /\ table[k].transaction_id = table[d].transaction_id
          /\ table[k].type # table[d].type
          /\ table[k].amount = table[d].amount)

\* A transfer's transaction has been cancelled, because a key it drew is taken
\* by a leg of an earlier transfer, and the table holds that transfer's legs.
C14_Witness ==
  \E c \in Calls :
    /\ pc[c] = "done"
    /\ result[c] = Result(FALSE, "DynamoDB error: Transaction cancelled")
    /\ Cardinality(DoubleEntryKeys) = 2

\* C15: the keys of the two legs are a function of transaction_id and leg
\* type: two legs of one transaction_id and one type are under one key, so a
\* second call with the transaction_id meets the first call's keys and adds nothing.
C15_LegKeysDetermined ==
  \A d, k \in DoubleEntryKeys :
    (table[d].transaction_id = table[k].transaction_id /\ table[d].type = table[k].type)
      => d = k

\* The request names a sender other than the account that makes it.
InitiatorDiffers(q) ==
  IF "transaction_id" \in DOMAIN q
  THEN _as_str(q.creator_account_number) # _as_str(q.sender_account_number)
  ELSE /\ _as_str(q.sender_account_number) # ""
       /\ _as_str(q.sender_account_number) # _as_str(q.account_number)

\* C16: a request whose initiating account differs from the sender account
\* (creator_account_number for a transfer, account_number for a single entry
\* with a sender given) is rejected when it is made: the call ends there with
\* is_created False and the table as it was, and it takes no step on the store.
C16_InitiatorMustBeSender ==
  /\ [][\A c \in Calls :
          (pc[c] = "idle" /\ pc'[c] # "idle" /\ InitiatorDiffers(payload'[c]))
            => /\ pc'[c] = "done"
               /\ ~result'[c].is_created
               /\ table' = table]_vars
  /\ [](\A c \in Calls : (pc[c] # "idle" /\ InitiatorDiffers(payload[c])) => pc[c] = "done")

\* Both writers have rejected a request because of its sender, with entries in the table.
C16_Witness ==
  /\ pc["w1"] = "done"
  /\ result["w1"] = Result(FALSE, "account_number must match sender_account_number")
  /\ pc["w2"] = "done"
  /\ result["w2"] =
       Result(FALSE, "Rejected: creator_account_number must equal sender_account_number")
  /\ LedgerKeys # {} /\ DoubleEntryKeys # {}

\* The write of a valid request failed at the store: an error of the store, or
\* the attempts used up.
WriteFailed(res) ==
  /\ ~res.is_created
  /\ \/ StartsWith(res.message, "DynamoDB error:")
     \/ StartsWith(res.message, "Unexpected error:")
     \/ Contains(res.message, "conflict: too many concurrent updates")

\* The messages the returned value of a handler reports to the queue as failed.
ReportedFailed(c) == {failures[c][j].itemIdentifier : j \in 1..Len(failures[c])}

\* C17: a queue-driven writer does not drop a valid request whose write failed
\* at the store: when the handler has returned, every record whose write
\* ended in a store error or in used-up attempts is reported to the queue as
\* failed, so that it is delivered again.
C17_FailedWriteReported ==
  \A c \in Calls :
    pc[c] = "returned"
      => \A i \in 1..Len(results[c]) :
           WriteFailed(results[c][i].result) => results[c][i].messageId \in ReportedFailed(c)

\* C18: a delivery of a message whose entry is already committed is absorbed:
\* the consumer leaves the table as it is and does not put the message into
\* batchItemFailures, unless the store itself failed during the delivery.
C18_DuplicateAbsorbed ==
  [][\A c \in Consumers :
       (/\ pc[c] = "done" /\ pc'[c] = "record"
        /\ Validate(fields[c]) = "OK"
        /\ fields[c].ledger_id \in LedgerKeys
        /\ \A fault \in StoreFaults \ {"none"} : result[c] # StoreFaultResult(fault))
         => failures'[c] = failures[c] /\ table' = table]_vars

\* The write of the record ended in an exception that the handler caught.
Raised(res) == ~res.is_created /\ StartsWith(res.message, "exception:")

\* C20: batchItemFailures holds exactly the message ids of the records handled
\* so far whose write ended in a store error, in used-up attempts or in an
\* unexpected exception, and the handler returns only when it has handled
\* every record of the batch.
C20_FailuresExact ==
  \A c \in Consumers :
    /\ ReportedFailed(c) =
         {results[c][i].messageId :
            i \in {j \in 1..Len(results[c]) :
                     WriteFailed(results[c][j].result) \/ Raised(results[c][j].result)}}
    /\ pc[c] = "returned" => Len(results[c]) = Len(records[c])

\* C19: after any commits on an account, also commits of calls that had to
\* retry, get_latest_balance returns the latest_balance of the STATE item,
\* which is the balance_after of the entry committed last.
C19_LatestBalanceRead ==
  \A a \in Accounts :
    HasState(a) => get_latest_balance(table, PyStr(a)) =
                     [exists |-> TRUE, latest_balance |-> StateBalance(a)]

\* C21: no step of a call of create_one_ledger or of create_double_entry,
\* whether the call succeeds or fails, changes or removes an entry that is in
\* the table: every single entry and every leg stays, with every field as it was.
C21_EntriesImmutable ==
  [][\A k \in LedgerKeys \cup DoubleEntryKeys :
       k \in DOMAIN table' /\ table'[k] = table[k]]_vars

\* The table holds an entry and the legs of a transfer; a call that repeated
\* the entry's ledger id has used up its attempts and a transfer has committed.
C21_Witness ==
  /\ pc["w1"] = "done" /\ result["w1"] = Result(FALSE, "Transaction failed")
  /\ fields["w1"].ledger_id \in LedgerKeys
  /\ pc["w2"] = "done" /\ result["w2"].is_created
  /\ Cardinality(DoubleEntryKeys) >= 2

\* The amounts a caller asks about, as numbers.
AskedAmounts == {PyInt(0), PyInt(50), PyStr(" 100 "), PyInt(150)}

\* C22: for an account and a non-negative amount, with the store answering
\* and the read up to date, verify_sufficient_funds returns is_sufficient
\* true exactly when the account has an entry and its latest balance is at
\* least the amount; without an entry it returns the not-found message, with
\* too low a balance the insufficient-funds message.
C22_SufficientFunds ==
  \A a \in Accounts : \A amt \in AskedAmounts :
    LET p == FundsPayload(PyStr(a), amt)
        answer == IF a \in DOMAIN table THEN <<table[a]>> ELSE <<>>
        res == verify_sufficient_funds(p, answer, "none")
        enough == StateBalance(a) >= FundsToDecimal(amt).n
    IN  /\ res.is_sufficient <=> (EntriesOf(a) # {} /\ enough)
        /\ (EntriesOf(a) = {})
             => res.message = "No ledger entries found for this entity_number."
        /\ (EntriesOf(a) # {} /\ ~enough) => res.message = "Insufficient funds."

\* The table as an index that is behind shows it: without the legs that are not in keep.
TableWith(keep) == [k \in (DOMAIN table \ DoubleEntryKeys) \cup keep |-> table[k]]

\* The two accounts of the transfers.
TransferAccounts == {"1001", "2001"}

NoCreatedBy(q) == _as_str(PayloadGet(q, "created_by")) = ""

\* C24: a request of create_one_ledger without created_by, or with an empty
\* one, is rejected as one without account_number or ledger_id is: the call
\* ends where it began, with is_created False, and the table keeps no entry
\* with an empty created_by.
C24_CreatedByRequired ==
  /\ \A c \in Calls :
       (pc[c] # "idle" /\ NoCreatedBy(payload[c])) => (pc[c] = "done" /\ ~result[c].is_created)
  /\ \A k \in LedgerKeys : table[k].created_by # ""

\* The transfer request lacks one of the four texts: it is None, empty or blank.
LacksText(q) ==
  \E name \in {"sender_account_name", "receiver_account_name", "created_by", "description"} :
    _as_str(PayloadGet(q, name)) = ""

\* C25: a request of create_double_entry in which sender_account_name,
\* receiver_account_name, created_by or description is missing or empty is
\* rejected: the call ends where it began, with is_created False, and no leg
\* in the table has an empty name or description.
C25_TransferTextsRequired ==
  /\ \A c \in Calls :
       (pc[c] # "idle" /\ LacksText(payload[c])) => (pc[c] = "done" /\ ~result[c].is_created)
  /\ \A k \in DoubleEntryKeys :
       /\ table[k].sender_account_name # "" /\ table[k].receiver_account_name # ""
       /\ table[k].description # ""

\* Every condition of the transaction call c is about to run holds: the store
\* has no version conflict and no failed condition to report for it.
ConditionsHold(c) ==
  /\ pc[c] = "transact"
  /\ IF state_exists[c]
     THEN VersionCondition(table, _state_pk(fields[c].account_number), version[c])
     ELSE AttributeNotExists(table, _state_pk(fields[c].account_number))
  /\ AttributeNotExists(table, fields[c].ledger_id)

\* C26: when the store answers a transaction whose conditions hold with an
\* error (so with one that is neither a version conflict nor a failed
\* condition), the call ends there: it makes no further attempt, it returns
\* is_created False with the store's error, and the table is as it was.
C26_StoreErrorEndsCall ==
  [][\A c \in Calls :
       (ConditionsHold(c) /\ pc'[c] # "transact" /\ ~(pc'[c] = "done" /\ result'[c].is_created))
         => /\ pc'[c] = "done"
            /\ attempt'[c] = attempt[c]
            /\ \/ StartsWith(result'[c].message, "DynamoDB error:")
               \/ StartsWith(result'[c].message, "Unexpected error:")
            /\ table' = table]_vars

\* y follows x at once in the order of the by-account index.
NextInIndex(t, items, x, y) ==
  /\ SortKeyLess(t[x], t[y])
  /\ \A z \in items \ {x, y} : ~(SortKeyLess(t[x], t[z]) /\ SortKeyLess(t[z], t[y]))

\* C27: the entries of an account, read in the order of the by-account index
\* key (created, then ledger id), are in commit order: the first starts from
\* balance 0 and every other starts from the balance_after of the entry just
\* before it, also when an entry was committed after retries.
C27_IndexOrderIsCommitOrder ==
  \A a \in Accounts :
    LET items == Gsi1Items(table, a)
    IN  \A y \in items :
          IF \E x \in items : NextInIndex(table, items, x, y)
          THEN \A x \in items :
                 NextInIndex(table, items, x, y) => table[y].balance_before = table[x].balance_after
          ELSE table[y].balance_before = 0

\* The calls that were made.
Made == {c \in Writers : pc[c] # "idle"}

\* C28: of at most 5 calls made at the same time on one account, each with a
\* fresh ledger id of its own, every one commits within its 5 attempts: a
\* cancelled attempt of a call follows a commit of another call since the
\* call's read, so a call has at most as many cancelled attempts as there are
\* other calls.
C28_FiveWritersAllCommit ==
  /\ \A c \in Made : attempt[c] <= 1 + Cardinality({l \in LedgerKeys : l # fields[c].ledger_id})
  /\ Cardinality(Made) <= 5 => \A c \in Made : pc[c] = "done" => result[c].is_created

\* Five calls were made and all have committed, one of them on its fifth attempt.
C28_Witness ==
  /\ Cardinality(Made) = 5
  /\ \A c \in Made : pc[c] = "done" /\ result[c].is_created
  /\ \E c \in Made : attempt[c] = 5

\* Six calls were made and one of them has used up its five attempts.
SixWritersOneExhausts ==
  /\ Cardinality(Made) = 6
  /\ \E c \in Made : pc[c] = "done" /\ result[c] = Result(FALSE, "Transaction failed")

\* What call c read as the state of its account is not what the table holds now.
Stale(c) ==
  LET a == fields[c].account_number
  IN  \/ state_exists[c] # HasState(a)
      \/ state_exists[c] /\ version[c] # StateVersion(a)

\* C29: with reads of the state that may return an older snapshot or no item
\* for a state that exists, the versions of an account are still gap-free,
\* every entry still continues the balance of the entry before it, and the
\* version still counts the entries; and the transaction of an attempt that
\* started from a stale snapshot leaves the table as it is.
C29_StaleReadsHarmless ==
  /\ [](C3_VersionsGapFree /\ C4_NoLostUpdate /\ C7_AllOrNothing)
  /\ [][\A c \in Calls :
          (pc[c] = "transact" /\ Stale(c) /\ pc'[c] # "transact") => table' = table]_vars

\* The consumer's read has returned no item for a state that is at version 2:
\* its transaction was cancelled and it is on a later attempt, again with a
\* stale snapshot.
C29_Witness ==
  /\ pc["w1"] = "transact" /\ attempt["w1"] >= 2
  /\ ~state_exists["w1"]
  /\ StateVersion("1001") >= 2

\* The consumer's read has returned version 1 for a state that is at version 2.
StaleOlderVersion ==
  /\ pc["w1"] = "transact" /\ state_exists["w1"] /\ version["w1"] = 1
  /\ StateVersion("1001") >= 2

\* C30: a call with a ledger id that is not in the table, on an account whose
\* STATE item exists and was read as it is, whose transaction meets no fault
\* of the store, commits: it returns is_created True and the version of the
\* STATE item goes up by one.
C30_ExistingStateAdvances ==
  [][\A c \in Calls :
       (/\ pc[c] = "transact" /\ pc'[c] # "transact"
        /\ state_exists[c] /\ ~Stale(c)
        /\ fields[c].ledger_id \notin DOMAIN table
        /\ \A fault \in StoreFaults \ {"none"} : result'[c] # StoreFaultResult(fault))
         => /\ pc'[c] = "done" /\ result'[c].is_created
            /\ table'[_state_pk(fields[c].account_number)].version
                 = table[_state_pk(fields[c].account_number)].version + 1]_vars

\* C31: a call of create_double_entry writes entries for a transaction_id only
\* after its lookup has reported that the by-transaction index holds none for
\* it; with calls made one at a time nothing is written between the lookup and
\* the write, so the step that writes finds no entry of that transaction_id in
\* the table, and a call whose lookup ended in a store error writes nothing.
C31_WriteOnlyAfterLookupFoundNone ==
  [][\A c \in Calls :
       (pc[c] = "transact" /\ table' # table)
         => LegsOf(table, fields[c].transaction_id) = {}]_vars

\* The transaction_id of the record the transactions consumer c is at.
RecordTransactionId(c) ==
  LET body == records[c][idx[c]].body
  IN  IF IsDict(body) THEN _as_str(PayloadGet(body, "transaction_id")) ELSE ""

\* C32: the transactions consumer returns without raising only when every
\* record of the batch has an is_created result and its transaction in the
\* table; handling a record either puts a transaction that was not in the
\* table and goes on to the next record, or changes nothing and raises; after
\* the raise the invocation only ends, handling no later record; and no step
\* removes or changes a transaction, so what was created before the raise stays.
C32_AckOnlyIfAllCreated ==
  /\ [](\A c \in Consumers :
          pc[c] = "returned"
            => /\ Len(results[c]) = Len(records[c])
               /\ \A i \in 1..Len(records[c]) :
                    /\ results[c][i].ok
                    /\ IsDict(records[c][i].body)
                    /\ _as_str(records[c][i].body.transaction_id) \in DOMAIN table)
  /\ [][\A c \in Consumers :
          (pc[c] = "record" /\ idx[c] <= Len(records[c]) /\ <<pc[c], idx[c]>>' # <<pc[c], idx[c]>>)
            => \/ /\ RecordTransactionId(c) \notin DOMAIN table
                  /\ DOMAIN table' = DOMAIN table \cup {RecordTransactionId(c)}
                  /\ pc'[c] = "record" /\ idx'[c] = idx[c] + 1
                  /\ Len(results'[c]) = idx[c] /\ results'[c][idx[c]].ok
               \/ /\ table' = table
                  /\ pc'[c] = "raised" /\ idx'[c] = idx[c]]_vars
  /\ [][\A c \in Consumers : pc[c] = "raised" => (pc'[c] = "idle" /\ table' = table)]_vars
  /\ [][\A k \in DOMAIN table : k \in DOMAIN table' /\ table'[k] = table[k]]_vars

\* The handler has raised at the second record of a batch, a transaction_id
\* that is in the table already, and the first record's transaction, created
\* in this invocation, is in the table.
C32_Witness ==
  \E c \in Consumers :
    /\ pc[c] = "raised" /\ idx[c] = 2
    /\ results[c][1].ok
    /\ _as_str(records[c][1].body.transaction_id) \in DOMAIN table
    /\ Len(results[c]) = 2 /\ results[c][2].result.message = "transaction_id already exists"

\* The handler has raised at the first record of a batch of two, and the
\* second record, a request that would be created, has not been handled.
C32_LaterRecordSkipped ==
  \E c \in Consumers :
    /\ pc[c] = "raised" /\ idx[c] = 1 /\ Len(records[c]) = 2
    /\ IsDict(records[c][2].body) /\ _validate_payload(records[c][2].body) = "ok"
    /\ _as_str(records[c][2].body.transaction_id) \notin DOMAIN table

\* C33: every message the ledger consumer is handed was accepted by the
\* producer (is_sent true), and it passes the consumer's
\* _validate_message_payload: the validation neither refuses it nor raises.
C33_AcceptedPassesValidation ==
  \A c \in Consumers : \A i \in 1..Len(records[c]) :
    /\ _validate_message_payload(records[c][i].body).ok
    /\ ~_validate_message_payload(records[c][i].body).raised

\* The amount a listed transfer moves to the account (as receiver) less the
\* amount it moves from it (as sender), by the legs the table holds for it.
NetOfTransfer(e, a) ==
  LET leg == CHOOSE k \in LegsOf(table, e.transaction_id) : TRUE
  IN  (IF table[leg].receiver_account_number = a THEN e.amount ELSE 0)
      - (IF table[leg].sender_account_number = a THEN e.amount ELSE 0)

RECURSIVE ReceivedLessSent(_, _)
ReceivedLessSent(entries, a) ==
  IF entries = {} THEN 0
  ELSE LET e == CHOOSE x \in entries : TRUE
       IN  NetOfTransfer(e, a) + ReceivedLessSent(entries \ {e}, a)

\* C34: whatever part of the committed legs the index reads of
\* build_double_entry_json return, debit_total equals credit_total when every
\* returned transfer is complete, and net_for_account is the sum of the
\* amounts of the returned transfers in which the account is the receiver less
\* the sum of those in which it is the sender, a transfer of an account to
\* itself counting zero.
C34_SummaryTotals ==
  \A a \in TransferAccounts : \A keep \in SUBSET DoubleEntryKeys :
    LET out == build_double_entry_json(TableWith(keep), PyStr(a))
    IN  /\ (\A e \in out.entries : e.is_complete)
             => out.summary.debit_total = out.summary.credit_total
        /\ out.summary.net_for_account = ReceivedLessSent(out.entries, a)

\* The same of the summary built from index reads that are up to date.
C34_SummaryTotalsOfCompleteList ==
  \A a \in TransferAccounts :
    LET out == build_double_entry_json(table, PyStr(a))
    IN  /\ \A e \in out.entries : e.is_complete
        /\ out.summary.debit_total = out.summary.credit_total
        /\ out.summary.net_for_account = ReceivedLessSent(out.entries, a)

\* The keys of the entries in which the account is the sender or the receiver.
EntriesWith(a) ==
  {k \in DOMAIN table :
     \/ table[k].kind = "ledger"
          /\ (table[k].account_number = a \/ table[k].receiver_account_number = a)
     \/ table[k].kind = "double_entry"
          /\ (table[k].sender_account_number = a \/ table[k].receiver_account_number = a)}

\* C35: list_ledgers_by_account reads every page of both indexes and returns
\* each entry in which the account is the sender or the receiver exactly once,
\* and nothing else, in the order of created and then ledger id, greatest first.
C35_EveryEntryOnce ==
  \A a \in TransferAccounts :
    LET ledgers == list_ledgers_by_account(table, PyStr(a)).ledgers
    IN  /\ {ledgers[i] : i \in 1..Len(ledgers)} = EntriesWith(a)
        /\ \A i, j \in 1..Len(ledgers) : i # j => ledgers[i] # ledgers[j]
        /\ \A i, j \in 1..Len(ledgers) :
             i < j => SortKeyLess(table[ledgers[j]], table[ledgers[i]])

\* The same of the entries that the two indexes hold for the account: those
\* with gsi_1_pk or gsi_2_pk equal to it.
C35_EveryIndexedEntryOnce ==
  \A a \in TransferAccounts :
    LET ledgers == list_ledgers_by_account(table, PyStr(a)).ledgers
    IN  /\ {ledgers[i] : i \in 1..Len(ledgers)}
             = SenderRows(table, a) \cup ReceiverRows(table, a)
        /\ \A i, j \in 1..Len(ledgers) : i # j => ledgers[i] # ledgers[j]
        /\ \A i, j \in 1..Len(ledgers) :
             i < j => SortKeyLess(table[ledgers[j]], table[ledgers[i]])

\* The account's rows fill more than one page of an index, a transfer of the
\* account to itself is found through both indexes, and entries of two
\* different seconds are listed.
C35_Paged ==
  LET ledgers == list_ledgers_by_account(table, PyStr("1001")).ledgers
  IN  /\ Len(_query_all(table, SenderRows(table, "1001"))) > PageSize
      /\ SenderRows(table, "1001") \cap ReceiverRows(table, "1001") # {}
      /\ \E i, j \in 1..Len(ledgers) : table[ledgers[i]].created # table[ledgers[j]].created

====
